---- MODULE Spec2Model ----
(***************************************************************************)
(* Blocked LU factorization kernels of the LINPACK benchmark (lu,          *)
(* top_update, left_update, inner_update_mm and the helpers lu_block and   *)
(* update_block) modelled as state machines over exact rational            *)
(* arithmetic.                                                             *)
(***************************************************************************)
EXTENDS Integers, Sequences, FiniteSets, TLC

VARIABLES
    LOCAL_MEM_BLOCK_LOG,   \* build parameter: BLOCK_SIZE = 1 << LOCAL_MEM_BLOCK_LOG
    REGISTER_BLOCK_LOG,    \* build parameter: GEMM_BLOCK = 1 << REGISTER_BLOCK_LOG
    blocks_per_row,        \* kernel argument, N / BLOCK_SIZE
    a_in,                  \* the matrix as the host handed it over
    a,                     \* __global a: the matrix in device memory
    a_block_trans,         \* __global a_block_trans, written by lu
    a_block,               \* __global a_block, written by lu
    lu,                    \* the running lu kernel: position and local memory
    num_replications,      \* number of replicated inner_update_mm kernels
    host,                  \* the block scheduler: diagonal step and stage
    top_block,             \* __global top_block buffers, one per block column
    left_block,            \* __global left_block buffers, one per block row
    top_update,                   \* the running top_update kernel
    left_update,                  \* the running left_update kernel
    inner_update_mm,                 \* the inner_update_mm instances of the current step
    log,                   \* history: the kernel runs that have stored their results
    a_stage,               \* history: the matrix when the trailing stage began
    benchmark,             \* the HpccFpgaBenchmark object of a process
    jsonify                \* a call of jsonifySettingsMap: its argument, position and result

vars == <<LOCAL_MEM_BLOCK_LOG, REGISTER_BLOCK_LOG, blocks_per_row, a_in, a,
          a_block_trans, a_block, lu, num_replications, host, top_block,
          left_block, top_update, left_update, inner_update_mm, log, a_stage,
          benchmark, jsonify>>

-----------------------------------------------------------------------------
(* Bounds of the model *)

\* largest seed of an input matrix; seeds 0 .. MaxSeed are tried per configuration
MaxSeed == 4
\* largest LOCAL_MEM_BLOCK_LOG of a single-block run of the lu kernel
MaxBlockLog == 2

-----------------------------------------------------------------------------
(* DEVICE_DATA_TYPE: exact rationals <<numerator, denominator>>, reduced,  *)
(* denominator > 0.  A denominator of 0 marks a value that is no number:   *)
(* Uninit is the content of memory that was never written, Inf the result  *)
(* of a division by zero; both propagate through every operation.          *)

Uninit == <<0, 0>>
Inf == <<1, 0>>

Abs(n) == IF n < 0 THEN -n ELSE n

RECURSIVE Gcd(_, _)
Gcd(m, n) == IF n = 0 THEN m ELSE Gcd(n, m % n)

Norm(n, d) ==
    LET g == Gcd(Abs(n), Abs(d))
        s == IF d < 0 THEN -1 ELSE 1
    IN  <<(s * n) \div g, (s * d) \div g>>

Rat(n) == <<n, 1>>
Zero == Rat(0)

IsNum(x) == x[2] # 0

NoNum(x, y) == IF x = Uninit \/ y = Uninit THEN Uninit ELSE Inf

\* |x| < |y|
RAbsLess(x, y) == Abs(x[1]) * y[2] < Abs(y[1]) * x[2]

\* x + y, over the least common denominator
RAdd(x, y) ==
    IF IsNum(x) /\ IsNum(y)
    THEN LET g == Gcd(x[2], y[2])
         IN  Norm(x[1] * (y[2] \div g) + y[1] * (x[2] \div g), (x[2] \div g) * y[2])
    ELSE NoNum(x, y)

\* x * y, reduced crosswise before multiplying
RMul(x, y) ==
    IF IsNum(x) /\ IsNum(y)
    THEN LET g1 == Gcd(Abs(x[1]), y[2])
             g2 == Gcd(Abs(y[1]), x[2])
         IN  Norm((x[1] \div g1) * (y[1] \div g2), (x[2] \div g2) * (y[2] \div g1))
    ELSE NoNum(x, y)

\* -1.0 / x
RNegInv(x) ==
    IF ~IsNum(x) THEN x
    ELSE IF x[1] = 0 THEN Inf
    ELSE Norm(-x[2], x[1])

\* TLC evaluates a function constructor lazily, element by element and again
\* at every use; comparing the function fixes its value once.
Eager(f) == IF f = f THEN f ELSE f

Pow2(n) == IF n = 0 THEN 1 ELSE IF n = 1 THEN 2 ELSE IF n = 2 THEN 4 ELSE 8

BLOCK_SIZE == Pow2(LOCAL_MEM_BLOCK_LOG)
GEMM_BLOCK == Pow2(REGISTER_BLOCK_LOG)

\* BLOCK_SIZE/GEMM_BLOCK, the number of micro-blocks per block row
NB == BLOCK_SIZE \div GEMM_BLOCK

GRange == 0 .. (GEMM_BLOCK - 1)
NBRange == 0 .. (NB - 1)
BRange == 0 .. (BLOCK_SIZE - 1)

\* x & (m - 1) for m a power of two
AndMask(x, m) == x % m

-----------------------------------------------------------------------------
(* lu_block: one step of the factorization of a GEMM_BLOCK micro-block *)

\* faulty variant: the reciprocal of the pivot is stored without the negation
lu_block_line_positive(A, step) ==
    LET inv_scale_a == RMul(Rat(-1), RNegInv(A[step][step]))
    IN  [i \in GRange |->
            IF i > step THEN RMul(A[step][i], inv_scale_a)
            ELSE IF i = step THEN inv_scale_a
            ELSE A[step][i]]

\* faulty variant: the whole row is scaled, also the columns before the pivot
lu_block_line_all(A, step) ==
    LET inv_scale_a == RNegInv(A[step][step])
    IN  [i \in GRange |->
            IF i # step THEN RMul(A[step][i], inv_scale_a) ELSE inv_scale_a]

lu_block_line(A, step) ==
    LET inv_scale_a == RNegInv(A[step][step])
    IN  [i \in GRange |->
            IF i > step THEN RMul(A[step][i], inv_scale_a)
            ELSE IF i = step THEN inv_scale_a
            ELSE A[step][i]]

\* faulty variant: the column below the pivot is scaled as well
lu_block_scaled_column(A, step) ==
    LET line == Eager(lu_block_line(A, step))
    IN  Eager([j \in GRange |->
            IF j # step
            THEN [i \in GRange |->
                    IF i > step /\ j > step
                    THEN RAdd(A[j][i], RMul(line[i], A[j][step]))
                    ELSE IF i = step /\ j > step THEN RMul(A[j][i], line[step])
                    ELSE A[j][i]]
            ELSE line])

\* faulty variant: the call with step GEMM_BLOCK-1 leaves the block as it is
lu_block_documented(A, step) ==
    LET line == Eager(lu_block_line(A, step))
    IN  IF step > GEMM_BLOCK - 2 THEN A
        ELSE Eager([j \in GRange |->
            IF j # step
            THEN [i \in GRange |->
                    IF i > step /\ j > step
                    THEN RAdd(A[j][i], RMul(line[i], A[j][step]))
                    ELSE A[j][i]]
            ELSE line])

lu_block(A, step) ==
    LET line == Eager(lu_block_line(A, step))
    IN  Eager([j \in GRange |->
            LET curr_scale == A[j][step]
            IN  IF j # step
                THEN [i \in GRange |->
                        IF i > step /\ j > step
                        THEN RAdd(A[j][i], RMul(line[i], curr_scale))
                        ELSE A[j][i]]
                ELSE line])

-----------------------------------------------------------------------------
(* update_block: one row step of the update of a micro-block *)

op_top == 0
op_left == 1
op_inner == 2

\* faulty variant: the rows that a triangular operation has finished are not restored
update_block_no_overwrite(a_mb, top, left_or_lu, current_row, operation_type) ==
    LET current_block == Eager([ii \in GRange |-> [jj \in GRange |->
            IF operation_type = op_left THEN a_mb[jj][ii] ELSE a_mb[ii][jj]]])
        scale_row0 == [jj \in GRange |->
            IF operation_type = op_inner THEN top[jj]
            ELSE current_block[current_row][jj]]
        scale_row == Eager([jj \in GRange |->
            IF operation_type = op_top
            THEN RMul(scale_row0[jj], left_or_lu[current_row])
            ELSE scale_row0[jj]])
        tmp == Eager([ii \in GRange |-> [jj \in GRange |->
            IF operation_type # op_inner /\ ii = current_row THEN scale_row[jj]
            ELSE RAdd(current_block[ii][jj], RMul(scale_row[jj], left_or_lu[ii]))]])
    IN  Eager([ii \in GRange |-> [jj \in GRange |->
            IF operation_type = op_left THEN tmp[jj][ii] ELSE tmp[ii][jj]]])

update_block(a_mb, top, left_or_lu, current_row, operation_type) ==
    LET \* transpose the input if the target is a left block
        current_block == Eager([ii \in GRange |-> [jj \in GRange |->
            IF operation_type = op_left THEN a_mb[jj][ii] ELSE a_mb[ii][jj]]])
        scale_row0 == [jj \in GRange |->
            IF operation_type = op_inner THEN top[jj]
            ELSE current_block[current_row][jj]]
        scale_row == Eager([jj \in GRange |->
            IF operation_type = op_top
            THEN RMul(scale_row0[jj], left_or_lu[current_row])
            ELSE scale_row0[jj]])
        tmp0 == Eager([ii \in GRange |-> [jj \in GRange |->
            RAdd(current_block[ii][jj], RMul(scale_row[jj], left_or_lu[ii]))]])
        \* overwrite results that are not needed for the triangular operations
        tmp == Eager([ii \in GRange |-> [jj \in GRange |->
            IF operation_type # op_inner /\ ii = current_row THEN scale_row[jj]
            ELSE IF operation_type # op_inner /\ ii < current_row
                 THEN current_block[ii][jj]
            ELSE tmp0[ii][jj]]])
    IN  Eager([ii \in GRange |-> [jj \in GRange |->
            IF operation_type = op_left THEN tmp[jj][ii] ELSE tmp[ii][jj]]])

-----------------------------------------------------------------------------
(* The index of element (row, col) of block (block_row, block_col) in the  *)
(* row-major matrix, as the kernels compute it.                            *)

\* faulty variant: the column offset is taken from the block row
GlobalIndex_row(block_col, block_row, i, ii, j, jj) ==
    block_row * BLOCK_SIZE
    + (block_row * BLOCK_SIZE + i * GEMM_BLOCK + ii) * BLOCK_SIZE * blocks_per_row
    + j * GEMM_BLOCK + jj

GlobalIndex(block_col, block_row, i, ii, j, jj) ==
    block_col * BLOCK_SIZE
    + (block_row * BLOCK_SIZE + i * GEMM_BLOCK + ii) * BLOCK_SIZE * blocks_per_row
    + j * GEMM_BLOCK + jj

\* faulty variant: row and column of the block buffer are exchanged
BlockIndex_exchanged(i, ii, j, jj) == (j * GEMM_BLOCK + jj) * BLOCK_SIZE + i * GEMM_BLOCK + ii

\* index of an element in a BLOCK_SIZE x BLOCK_SIZE buffer
BlockIndex(i, ii, j, jj) == (i * GEMM_BLOCK + ii) * BLOCK_SIZE + j * GEMM_BLOCK + jj

\* the iteration space <<i, ii, j, jj>> of the coalesced load and store loops
Quads == NBRange \X GRange \X NBRange \X GRange

\* Load block to local memory
LoadBlock(mem, block_col, block_row) ==
    Eager([i \in NBRange |-> [j \in NBRange |-> [ii \in GRange |-> [jj \in GRange |->
        mem[GlobalIndex(block_col, block_row, i, ii, j, jj)]]]]])

\* Store block to global memory
StoreBlock(mem, a_buffer, block_col, block_row) ==
    Eager([x \in DOMAIN mem |->
        IF \E q \in Quads : x = GlobalIndex(block_col, block_row, q[1], q[2], q[3], q[4])
        THEN LET q == CHOOSE q \in Quads :
                        x = GlobalIndex(block_col, block_row, q[1], q[2], q[3], q[4])
             IN  a_buffer[q[1]][q[3]][q[2]][q[4]]
        ELSE mem[x]])

\* a block written to a separate buffer in canonical orientation
StoreBuffer(a_buffer) ==
    Eager([x \in 0 .. (BLOCK_SIZE * BLOCK_SIZE - 1) |->
        LET q == CHOOSE q \in Quads : x = BlockIndex(q[1], q[2], q[3], q[4])
        IN  a_buffer[q[1]][q[3]][q[2]][q[4]]])

\* faulty variant: the transposition is forgotten
StoreBufferTransposed_plain(a_buffer) == StoreBuffer(a_buffer)

\* a block written to a separate buffer transposed
StoreBufferTransposed(a_buffer) ==
    Eager([x \in 0 .. (BLOCK_SIZE * BLOCK_SIZE - 1) |->
        LET q == CHOOSE q \in Quads : x = BlockIndex(q[1], q[2], q[3], q[4])
        IN  a_buffer[q[3]][q[1]][q[4]][q[2]]])

-----------------------------------------------------------------------------
(* The lu kernel: factorization of the diagonal block                      *)

\* local memory of a kernel before anything is written to it
UninitBuffer == [i \in NBRange |-> [j \in NBRange |-> [ii \in GRange |-> [jj \in GRange |-> Uninit]]]]
UninitChunk == [jj \in GRange |-> Uninit]

\* the locals of lu at kernel start
\* calls is history: the update_block calls <<i, j, operation_type>> of the
\* current iteration gk, in order
LuLocals(block_col, block_row) ==
    [pc |-> "load", block_col |-> block_col, block_row |-> block_row,
     gk |-> 0, k |-> 0, kk |-> 0, ttj |-> 0,
     a_buffer |-> UninitBuffer,
     top_buffer |-> [j \in NBRange |-> UninitChunk],
     left_buffer |-> [b \in 0 .. 1 |-> UninitChunk],
     lu_a_buffer_in |-> [ii \in GRange |-> UninitChunk],
     lu_a_buffer_out |-> [ii \in GRange |-> UninitChunk],
     lu_a_buffer_out_row |-> UninitChunk,
     lu_a_buffer_out_col |-> UninitChunk,
     calls |-> <<>>]

\* faulty variant: the update loop ends one row of micro-blocks early
LuUpdateBound_short(k) == ((NB - k - 1) * BLOCK_SIZE) \div GEMM_BLOCK

\* number of iterations of the update loop over ttj in a step of micro-block row k
LuUpdateBound(k) == ((NB - k) * BLOCK_SIZE) \div GEMM_BLOCK

\* the guard of the update pipeline: not executed for the last row of micro-blocks
LuUpdateGuard(gk) == gk < BLOCK_SIZE - GEMM_BLOCK

\* faulty variant: the loop over gk leaves out every second iteration
LuAfterStep_skip(loc, gk) ==
    IF gk + 2 < BLOCK_SIZE
    THEN [loc EXCEPT !.gk = gk + 2, !.ttj = 0, !.pc = "lu_block"]
    ELSE [loc EXCEPT !.gk = gk + 2, !.ttj = 0, !.pc = "store"]

\* faulty variant: the loop over gk is left when lu_block has met a zero pivot
LuAfterStep_zero_pivot(loc, gk) ==
    IF gk + 1 < BLOCK_SIZE /\ loc.lu_a_buffer_out[loc.kk][loc.kk] # Inf
    THEN [loc EXCEPT !.gk = gk + 1, !.ttj = 0, !.pc = "lu_block"]
    ELSE [loc EXCEPT !.gk = gk + 1, !.ttj = 0, !.pc = "store"]

\* where the kernel continues after the body of iteration gk
LuAfterStep(loc, gk) ==
    IF gk + 1 < BLOCK_SIZE
    THEN [loc EXCEPT !.gk = gk + 1, !.ttj = 0, !.pc = "lu_block"]
    ELSE [loc EXCEPT !.gk = gk + 1, !.ttj = 0, !.pc = "store"]

\* Load block to local memory
LuLoad(loc, mem) ==
    [loc EXCEPT !.a_buffer = LoadBlock(mem, loc.block_col, loc.block_row),
                !.gk = 0, !.pc = "lu_block"]

\* Calculate next row and column of LU factorization and store in local memory buffer
LuFactorStep(loc) ==
    LET gk == loc.gk
        k == gk \div GEMM_BLOCK
        kk == AndMask(gk, GEMM_BLOCK)
        lu_a_buffer_in == loc.a_buffer[k][k]
        lu_a_buffer_out == lu_block(lu_a_buffer_in, kk)
        loc1 == [loc EXCEPT
                    !.k = k, !.kk = kk, !.calls = <<>>,
                    !.a_buffer[k][k] = lu_a_buffer_out,
                    !.lu_a_buffer_in = lu_a_buffer_in,
                    !.lu_a_buffer_out = lu_a_buffer_out,
                    !.lu_a_buffer_out_row = [jj \in GRange |-> lu_a_buffer_out[kk][jj]],
                    !.lu_a_buffer_out_col = [jj \in GRange |-> lu_a_buffer_out[jj][kk]]]
    IN  IF LuUpdateGuard(gk) /\ LuUpdateBound(k) > 0
        THEN [loc1 EXCEPT !.ttj = 0, !.pc = "update"]
        ELSE LuAfterStep(loc1, gk)

\* faulty variant: in the column of the diagonal micro-block the update starts
\* with the diagonal micro-block itself
LuUpdateTarget_diagonal(k, ttj) ==
    LET j == AndMask(ttj, NB)
        ti == (ttj + ((k * BLOCK_SIZE) \div GEMM_BLOCK)) \div NB
        i == ti
    IN  IF ti >= k /\ j >= k /\ i < NB THEN <<i, j, ti>> ELSE <<>>

\* the micro-block an iteration ttj works on: <<i, j, ti>>, or <<>> when the
\* iteration is skipped
LuUpdateTarget(k, ttj) ==
    LET j == AndMask(ttj, NB)
        ti == (ttj + ((k * BLOCK_SIZE) \div GEMM_BLOCK)) \div NB
        i == IF j = k THEN ti + 1 ELSE ti
    IN  IF ti >= k /\ j >= k /\ i < NB THEN <<i, j, ti>> ELSE <<>>

\* faulty variant: every micro-block is updated as an inner one, which reads
\* top_input
LuOperationType_inner(i, j, k) == op_inner

\* the operation_type argument of update_block
LuOperationType(i, j, k) == IF i = k THEN op_top ELSE IF j = k THEN op_left ELSE op_inner

\* faulty variant: the left update of the next row writes the slot the
\* current row reads
LuLeftWriteSlot_current(ti) == AndMask(ti, 2)

\* the left_buffer slot the left update made in row ti of the loop writes
LuLeftWriteSlot(ti) == AndMask(ti + 1, 2)

\* the left_buffer slot the inner updates of row ti read
LuLeftReadSlot(ti) == AndMask(ti, 2)

\* one iteration of the update loop
LuUpdateBody(loc, gk, ttj) ==
    LET k == gk \div GEMM_BLOCK
        kk == AndMask(gk, GEMM_BLOCK)
        t == LuUpdateTarget(k, ttj)
    IN  IF t = <<>> THEN loc
        ELSE
        LET i == t[1]
            j == t[2]
            ti == t[3]
            second_input ==
                IF j = k THEN loc.lu_a_buffer_out_row
                ELSE IF i = k THEN loc.lu_a_buffer_out_col
                ELSE loc.left_buffer[LuLeftReadSlot(ti)]
            a_input == loc.a_buffer[i][j]
            top_input == IF ttj >= NB THEN loc.top_buffer[j] ELSE UninitChunk
            out == update_block(a_input, top_input, second_input, kk,
                                LuOperationType(i, j, k))
            top1 == IF ttj < NB
                    THEN [loc.top_buffer EXCEPT ![ttj] = [jj \in GRange |-> out[kk][jj]]]
                    ELSE loc.top_buffer
            left1 == IF i > k /\ j = k
                     THEN [loc.left_buffer EXCEPT
                              ![LuLeftWriteSlot(ti)] = [ii \in GRange |-> out[ii][kk]]]
                     ELSE loc.left_buffer
        IN  [loc EXCEPT !.top_buffer = top1, !.left_buffer = left1,
                        !.a_buffer[i][j] = out,
                        !.calls = Append(loc.calls, <<i, j, LuOperationType(i, j, k)>>)]

LuUpdateIter(loc) ==
    LET gk == loc.gk
        k == gk \div GEMM_BLOCK
        loc1 == LuUpdateBody(loc, gk, loc.ttj)
    IN  IF loc.ttj + 1 < LuUpdateBound(k)
        THEN [loc1 EXCEPT !.ttj = loc.ttj + 1]
        ELSE LuAfterStep(loc1, gk)

-----------------------------------------------------------------------------
(* The top_update kernel: update of a block right of the diagonal block    *)

KernelIdle == [pc |-> "idle"]

\* the locals of top_update and left_update at kernel start
UpdateLocals(block_col, block_row) ==
    [pc |-> "load", block_col |-> block_col, block_row |-> block_row,
     gk |-> 0, a_buffer |-> UninitBuffer]

UpdateLoad(loc, mem) ==
    [loc EXCEPT !.a_buffer = LoadBlock(mem, loc.block_col, loc.block_row),
                !.gk = 0, !.pc = "step"]

\* where top_update and left_update continue after iteration gk
UpdateAfterStep(loc, a_buffer) ==
    [loc EXCEPT !.a_buffer = a_buffer, !.gk = loc.gk + 1,
                !.pc = IF loc.gk + 1 < BLOCK_SIZE THEN "step" ELSE "store"]

\* current_scale, set in the iteration col = 0 of the chunk loop
TopCurrentScale(lu_global_buffer_transposed, gk) ==
    LET k == gk \div GEMM_BLOCK
        kk == AndMask(gk, GEMM_BLOCK)
    IN  IF 0 < NB - k
        THEN lu_global_buffer_transposed[gk * BLOCK_SIZE + (0 + k) * GEMM_BLOCK + kk]
        ELSE Uninit

\* faulty variant: the entries up to kk of the first chunk are not masked
TopCurrentLuCol_unmasked(lu_global_buffer_transposed, gk) ==
    LET k == gk \div GEMM_BLOCK
    IN  Eager([col \in NBRange |->
            IF col < NB - k
            THEN [i \in GRange |->
                    lu_global_buffer_transposed[gk * BLOCK_SIZE + (col + k) * GEMM_BLOCK + i]]
            ELSE UninitChunk])

\* current_lu_col after the chunk loop
TopCurrentLuCol(lu_global_buffer_transposed, gk) ==
    LET k == gk \div GEMM_BLOCK
        kk == AndMask(gk, GEMM_BLOCK)
    IN  Eager([col \in NBRange |->
            IF col < NB - k
            THEN [i \in GRange |->
                    IF col > 0 \/ i > kk
                    THEN lu_global_buffer_transposed[gk * BLOCK_SIZE + (col + k) * GEMM_BLOCK + i]
                    ELSE Zero]
            ELSE UninitChunk])

\* current_row after the chunk loop: row gk of the block, scaled
TopCurrentRow(a_buffer, lu_global_buffer_transposed, gk) ==
    LET k == gk \div GEMM_BLOCK
        kk == AndMask(gk, GEMM_BLOCK)
        current_scale == TopCurrentScale(lu_global_buffer_transposed, gk)
    IN  Eager([col \in NBRange |-> [i \in GRange |->
            RMul(a_buffer[k][col][kk][i], current_scale)]])

\* one iteration gk of top_update on the local block
TopStep(a_buffer, lu_global_buffer_transposed, gk) ==
    LET k == gk \div GEMM_BLOCK
        kk == AndMask(gk, GEMM_BLOCK)
        current_lu_col == TopCurrentLuCol(lu_global_buffer_transposed, gk)
        current_row == TopCurrentRow(a_buffer, lu_global_buffer_transposed, gk)
        \* Update local memory buffer with chunk
        a1 == Eager([a_buffer EXCEPT ![k] = [col \in NBRange |->
                    [a_buffer[k][col] EXCEPT ![kk] = current_row[col]]]])
    IN  \* Update all remaining rows
        Eager([r \in NBRange |-> [curr_col \in NBRange |->
            IF r >= k
            THEN [i \in GRange |-> [j \in GRange |->
                    RAdd(a1[r][curr_col][i][j],
                         RMul(current_lu_col[r - k][i], current_row[curr_col][j]))]]
            ELSE a1[r][curr_col]]])

-----------------------------------------------------------------------------
(* The left_update kernel: update of a block below the diagonal block      *)

\* faulty variant: the chunks are taken from row gk of the block
LeftCurrentCol_row(a_buffer, gk) ==
    LET k == gk \div GEMM_BLOCK
        kk == AndMask(gk, GEMM_BLOCK)
    IN  Eager([col \in NBRange |-> [i \in GRange |-> a_buffer[k][col][kk][i]]])

\* current_col after the chunk loop: column gk of the block
LeftCurrentCol(a_buffer, gk) ==
    LET k == gk \div GEMM_BLOCK
        kk == AndMask(gk, GEMM_BLOCK)
    IN  Eager([col \in NBRange |-> [i \in GRange |-> a_buffer[col][k][i][kk]]])

\* faulty variant: the entry of the pivot column is not masked
LeftCurrentLuRow_unmasked(lu_global_buffer, gk) ==
    LET k == gk \div GEMM_BLOCK
        kk == AndMask(gk, GEMM_BLOCK)
    IN  Eager([col \in NBRange |->
            IF col < NB - k
            THEN [i \in GRange |->
                    IF col > 0 \/ i >= kk
                    THEN lu_global_buffer[gk * BLOCK_SIZE + (col + k) * GEMM_BLOCK + i]
                    ELSE Zero]
            ELSE UninitChunk])

\* current_lu_row after the chunk loop
LeftCurrentLuRow(lu_global_buffer, gk) ==
    LET k == gk \div GEMM_BLOCK
        kk == AndMask(gk, GEMM_BLOCK)
    IN  Eager([col \in NBRange |->
            IF col < NB - k
            THEN [i \in GRange |->
                    IF col > 0 \/ i > kk
                    THEN lu_global_buffer[gk * BLOCK_SIZE + (col + k) * GEMM_BLOCK + i]
                    ELSE Zero]
            ELSE UninitChunk])

\* one iteration gk of left_update on the local block
LeftStep(a_buffer, lu_global_buffer, gk) ==
    LET k == gk \div GEMM_BLOCK
        current_col == LeftCurrentCol(a_buffer, gk)
        current_lu_row == LeftCurrentLuRow(lu_global_buffer, gk)
    IN  \* Update only remaining row chunks
        Eager([row \in NBRange |-> [c \in NBRange |->
            IF c >= k
            THEN [i \in GRange |-> [j \in GRange |->
                    RAdd(a_buffer[row][c][i][j],
                         RMul(current_lu_row[c - k][j], current_col[row][i]))]]
            ELSE a_buffer[row][c]]])

\* the micro-block <<row, curr_col + k>> of a_buffer that iteration it of the
\* coalesced update loop of left_update reads and writes in micro-block
\* column step k
LeftUpdateTarget(k, it) == <<it \div (NB - k), (it % (NB - k)) + k>>

\* number of iterations of the coalesced update loop of left_update
LeftUpdateBound(k) == NB * (NB - k)

-----------------------------------------------------------------------------
(* The inner_update_mm kernel: update of a block of the trailing matrix    *)

\* a BLOCK_SIZE x BLOCK_SIZE buffer loaded to local memory
LoadBuffer(buf) ==
    Eager([i \in NBRange |-> [j \in NBRange |-> [ii \in GRange |-> [jj \in GRange |->
        buf[BlockIndex(i, ii, j, jj)]]]]])

RECURSIVE InnerAccumulate(_, _, _, _, _, _)
\* result_sub[i][j] after the iterations k .. GEMM_BLOCK-1 of the unrolled loop
InnerAccumulate(result, left_sub, top_sub, i, j, k) ==
    IF k >= GEMM_BLOCK THEN result
    ELSE InnerAccumulate(RAdd(result, RMul(left_sub[k][i], top_sub[k][j])),
                         left_sub, top_sub, i, j, k + 1)

\* faulty variant: the row of the micro-block is taken from the sweep counter
InnerTarget_sweep(c) == <<AndMask(c \div (NB * NB), NB), AndMask(c, NB)>>

\* the micro-block <<row, curr_col>> of a_buffer that iteration c reads and writes
InnerTarget(c) == <<AndMask(c \div NB, NB), AndMask(c, NB)>>

\* faulty variant: the micro-block of the left buffer is taken at [row][mcol]
InnerIter_exchanged(a_buffer, top_buffer, left_buffer, c) ==
    LET mcol == c \div (NB * NB)
        row == InnerTarget(c)[1]
        curr_col == InnerTarget(c)[2]
        top_sub == top_buffer[mcol][curr_col]
        left_sub == left_buffer[row][mcol]
        result_sub == [i \in GRange |-> [j \in GRange |->
            InnerAccumulate(a_buffer[row][curr_col][i][j], left_sub, top_sub, i, j, 0)]]
    IN  Eager([a_buffer EXCEPT ![row][curr_col] = result_sub])

\* iteration c of the loop that updates the whole block
InnerIter(a_buffer, top_buffer, left_buffer, c) ==
    LET mcol == c \div (NB * NB)
        row == InnerTarget(c)[1]
        curr_col == InnerTarget(c)[2]
        top_sub == top_buffer[mcol][curr_col]
        left_sub == left_buffer[mcol][row]
        result_sub == [i \in GRange |-> [j \in GRange |->
            InnerAccumulate(a_buffer[row][curr_col][i][j], left_sub, top_sub, i, j, 0)]]
    IN  Eager([a_buffer EXCEPT ![row][curr_col] = result_sub])

RECURSIVE InnerSweep(_, _, _, _, _)
\* the iterations c .. last of the loop
InnerSweep(a_buffer, top_buffer, left_buffer, c, last) ==
    IF c > last THEN a_buffer
    ELSE LET next == InnerIter(a_buffer, top_buffer, left_buffer, c)
         IN  IF next = next
             THEN InnerSweep(next, top_buffer, left_buffer, c + 1, last)
             ELSE next

RECURSIVE InnerLoop(_, _, _, _)
\* the loop from iteration c on, a sweep over the NB * NB micro-blocks at a time
InnerLoop(a_buffer, top_buffer, left_buffer, c) ==
    IF c >= NB * NB * NB THEN a_buffer
    ELSE LET next == InnerSweep(a_buffer, top_buffer, left_buffer, c, c + NB * NB - 1)
         IN  IF next = next
             THEN InnerLoop(next, top_buffer, left_buffer, c + NB * NB)
             ELSE next

\* the locals of inner_update_mm after the load
InnerLoad(mem, left_global_buffer, top_global_buffer, block_col, block_row) ==
    [pc |-> "update", block_col |-> block_col, block_row |-> block_row,
     a_buffer |-> LoadBlock(mem, block_col, block_row),
     top_buffer |-> LoadBuffer(top_global_buffer),
     left_buffer |-> LoadBuffer(left_global_buffer)]

\* faulty variant: the block is stored with block row and block column exchanged, so
\* that an instance writes what another instance reads
InnerUpdateStore_exchanged(mem, loc) ==
    StoreBlock(mem, InnerLoop(loc.a_buffer, loc.top_buffer, loc.left_buffer, 0),
               loc.block_row, loc.block_col)

\* the matrix after the update loop and the store of an instance
InnerUpdateStore(mem, loc) ==
    StoreBlock(mem, InnerLoop(loc.a_buffer, loc.top_buffer, loc.left_buffer, 0),
               loc.block_col, loc.block_row)

-----------------------------------------------------------------------------
(* Input matrices *)

\* side length of the matrix
MatrixSize == BLOCK_SIZE * blocks_per_row

\* a dense matrix with the pivots PivotOf(m) and small Schur complements: the
\* product of a unit lower triangular and an upper triangular integer matrix
LowerOf(i, m, seed) == IF i = m THEN 1 ELSE ((2 * i + 3 * m + seed) % 5) - 2
UpperOf(m, j, seed) ==
    IF m = j THEN (IF (m + seed) % 3 = 0 THEN 2 ELSE IF (m + seed) % 3 = 1 THEN -2 ELSE 3)
    ELSE ((3 * m + j + 2 * seed) % 4) - 1

RECURSIVE SumTo(_, _, _, _)
SumTo(i, j, m, seed) ==
    IF m < 0 THEN 0
    ELSE LowerOf(i, m, seed) * UpperOf(m, j, seed) + SumTo(i, j, m - 1, seed)

ProductMatrix(n, seed) ==
    [x \in 0 .. (n * n - 1) |->
        LET i == x \div n
            j == x % n
        IN  Rat(SumTo(i, j, IF i < j THEN i ELSE j, seed))]

\* a diagonally dominant matrix; beyond 4 x 4 only two entries per row beside
\* the diagonal are non-zero, which keeps the exact values small
OffDiagonal(i, j, n, seed) ==
    IF n <= 4 THEN ((i * 3 + j * 2 + seed) % 4) - 1
    ELSE IF (j - i) % n = 1 THEN 1
    ELSE IF (j - i) % n = n - 3 THEN (IF (i + seed) % 2 = 0 THEN -1 ELSE 1)
    ELSE 0

RECURSIVE RowAbsSum(_, _, _, _)
RowAbsSum(i, j, n, seed) ==
    IF j >= n THEN 0
    ELSE (IF j = i THEN 0 ELSE Abs(OffDiagonal(i, j, n, seed))) + RowAbsSum(i, j + 1, n, seed)

DominantMatrix(n, seed) ==
    [x \in 0 .. (n * n - 1) |->
        LET i == x \div n
            j == x % n
        IN  IF i = j THEN Rat(RowAbsSum(i, 0, n, seed) + 1 + (IF n <= 4 THEN (i + seed) % 2 ELSE 0))
            ELSE Rat(OffDiagonal(i, j, n, seed))]

\* a product matrix whose upper factor has a zero on the diagonal: pivot
\* (seed + 1) % n of the factorization is zero, the pivots before it are not
ZeroPivotMatrix(n, seed) ==
    [x \in 0 .. (n * n - 1) |->
        LET i == x \div n
            j == x % n
            z == (seed + 1) % n
        IN  Rat(SumTo(i, j, IF i < j THEN i ELSE j, seed)
                - (IF j = z /\ i >= z THEN LowerOf(i, z, seed) * UpperOf(z, z, seed) ELSE 0))]

\* seeds give in turn a diagonally dominant matrix, a product matrix and a
\* matrix with a zero pivot
InputMatrix(n, seed) ==
    IF seed % 3 = 0 THEN DominantMatrix(n, seed \div 3)
    ELSE IF seed % 3 = 1 THEN ProductMatrix(n, seed \div 3)
    ELSE ZeroPivotMatrix(n, seed \div 3)

-----------------------------------------------------------------------------
(* jsonifySettingsMap: the settings map as JSON values. A std::string is a  *)
(* sequence of characters; a JSON value is <<"int", n>>, <<"bool", b>>,     *)
(* <<"string", str>> or <<"object", P, Q>>.                                 *)

INT_MAX == 2147483647
INT_MIN == -2147483647 - 1

\* std::string::npos
Npos == -1

Digits == <<"0", "1", "2", "3", "4", "5", "6", "7", "8", "9">>
IsDigit(ch) == \E d \in DOMAIN Digits : Digits[d] = ch
DigitValue(ch) == (CHOOSE d \in DOMAIN Digits : Digits[d] = ch) - 1

\* str.find(ch): the position, counted from 0, of the first ch, or npos
Find(str, ch) ==
    IF \E x \in DOMAIN str : str[x] = ch
    THEN (CHOOSE x \in DOMAIN str : str[x] = ch /\ \A y \in 1 .. (x - 1) : str[y] # ch) - 1
    ELSE Npos

\* pos + 1 in size_t: npos + 1 is 0
PlusOne(pos) == IF pos = Npos THEN 0 ELSE pos + 1

\* str.substr(pos, len) throws std::out_of_range
SubstrThrows(str, pos) == pos = Npos \/ pos > Len(str)

\* str.substr(pos, len) for pos <= size: at most len characters from pos on
Substr(str, pos, len) ==
    LET count == IF len = Npos \/ len > Len(str) - pos THEN Len(str) - pos ELSE len
    IN  SubSeq(str, pos + 1, pos + count)

RECURSIVE SkipSpace(_, _)
\* the position, counted from 1, of the first character that is not white space
SkipSpace(str, x) == IF x <= Len(str) /\ str[x] = " " THEN SkipSpace(str, x + 1) ELSE x

RECURSIVE StoiDigits(_, _, _)
\* the digits from position x on, accumulated as a negative number; "range"
\* when the number leaves the range of int
StoiDigits(str, x, acc) ==
    IF x > Len(str) \/ ~IsDigit(str[x]) THEN <<"int", acc>>
    ELSE IF acc < (INT_MIN + DigitValue(str[x]) + 9) \div 10 THEN <<"range", 0>>
    ELSE StoiDigits(str, x + 1, acc * 10 - DigitValue(str[x]))

\* std::stoi(str): white space, a sign and digits are read from the front of
\* the string and what follows is ignored; <<"int", n>>, or
\* <<"invalid_argument">> without a digit, or <<"out_of_range">>
stoi(str) ==
    LET b == SkipSpace(str, 1)
        signed == b <= Len(str) /\ str[b] \in {"+", "-"}
        negative == signed /\ str[b] = "-"
        d == IF signed THEN b + 1 ELSE b
    IN  IF d > Len(str) \/ ~IsDigit(str[d]) THEN <<"invalid_argument">>
        ELSE LET r == StoiDigits(str, d, 0)
             IN  IF r[1] = "range" THEN <<"out_of_range">>
                 ELSE IF negative THEN <<"int", r[2]>>
                 ELSE IF r[2] = INT_MIN THEN <<"out_of_range">>
                 ELSE <<"int", -r[2]>>

\* parseFPGATorusString(str): <<"object", P, Q>>, or the exception that
\* substr or stoi throws
parseFPGATorusString(str) ==
    LET space == Find(str, " ")
        p_str == Substr(str, 0, space)
        q_str == Substr(str, space, Len(str))
        P == stoi(Substr(p_str, PlusOne(Find(p_str, "=")), Find(p_str, ",")))
        Q == stoi(Substr(q_str, PlusOne(Find(q_str, "=")), Len(q_str)))
    IN  IF SubstrThrows(str, space) THEN <<"out_of_range">>
        ELSE IF SubstrThrows(p_str, PlusOne(Find(p_str, "="))) THEN <<"out_of_range">>
        ELSE IF P[1] # "int" THEN P
        ELSE IF SubstrThrows(q_str, PlusOne(Find(q_str, "="))) THEN <<"out_of_range">>
        ELSE IF Q[1] # "int" THEN Q
        ELSE <<"object", P[2], Q[2]>>

\* a string literal used as a condition is a pointer that is not null
LiteralAsCondition(literal) == TRUE

\* the body of the loop over the items: the value of j[key], or the
\* exception that leaves the function
JsonEntry(key, value) ==
    IF stoi(value)[1] = "int" THEN stoi(value)
    ELSE IF stoi(value)[1] = "out_of_range" THEN <<"out_of_range">>
    ELSE IF key = "FPGA Torus" THEN parseFPGATorusString(value)
    ELSE IF \/ key = "Emulate" \/ key = "Test Mode" \/ key = "Memory Interleaving"
            \/ key = "Replicate Inputs" \/ key = "Inverse"
            \/ key = "Diagonally Dominant" \/ LiteralAsCondition("Dist. Buffers")
    THEN <<"bool", value = <<"Y", "e", "s">>>>
    ELSE <<"string", value>>

\* no call of jsonifySettingsMap
JsonIdle == [pc |-> "idle"]

\* one item of the loop: rest is the keys still to come, in the order of the map
jsonifySettingsMapItem(loc) ==
    LET key == Head(loc.rest)
        entry == JsonEntry(key, loc.settings_map[key])
    IN  IF entry[1] \in {"invalid_argument", "out_of_range"}
        THEN [loc EXCEPT !.pc = "thrown", !.exception = entry[1]]
        ELSE [loc EXCEPT !.j = [k \in DOMAIN loc.j \cup {key} |->
                                    IF k = key THEN entry ELSE loc.j[k]],
                         !.rest = Tail(loc.rest),
                         !.pc = IF Tail(loc.rest) = <<>> THEN "returned" ELSE "loop"]

-----------------------------------------------------------------------------
(* The host framework: class HpccFpgaBenchmark                             *)

\* largest MPI rank of a process and largest number of calls made on a
\* benchmark object
MaxRank == 1
MaxCalls == 4

\* the object after construction. op, ret, called, thrown, output and setup
\* are history: the last operation, its return value, the methods it called
\* in order, the method that threw in it, what validateOutput returned in it,
\* and of the most recent setupBenchmark whether it came to the parameter
\* check, what checkInputParameters would return, what it returned, and
\* whether its arguments asked for test mode
HpccFpgaBenchmark(rank) ==
    [mpi_comm_rank |-> rank,
     benchmark_setup_succeeded |-> FALSE,
     executionSettings |-> <<>>,
     validated |-> FALSE,
     exited |-> FALSE,
     op |-> "none", ret |-> FALSE, called |-> <<>>, thrown |-> "none", output |-> FALSE,
     setup |-> <<>>, n |-> 0]

\* the calls of setupBenchmark before the parameter check: in test mode no
\* device is selected and no context or program created
SetupSteps(parse, testOnly, device) ==
    <<"parseProgramParameters">>
    \o (IF parse = "ok" /\ ~testOnly
        THEN <<"selectFPGADevice">>
             \o (IF device = "ok" THEN <<"cl::Context", "fpgaSetup">> ELSE <<>>)
        ELSE <<>>)

\* faulty variant: the result of checkInputParameters is ignored
setupBenchmark_unchecked(obj, parse, testOnly, skipValidation, dumpfile, device, check) ==
    LET reached == parse = "ok" /\ (testOnly \/ device = "ok")
        checked == reached /\ obj.mpi_comm_rank = 0
        success == reached
    IN  IF parse = "exit"
        THEN [obj EXCEPT !.exited = TRUE, !.op = "exit", !.called = <<"parseProgramParameters">>,
                         !.thrown = "none", !.n = @ + 1]
        ELSE [obj EXCEPT
                !.executionSettings =
                    IF reached
                    THEN [testOnly |-> testOnly, skipValidation |-> skipValidation, dumpfile |-> dumpfile]
                    ELSE @,
                !.benchmark_setup_succeeded = success,
                !.op = "setupBenchmark", !.ret = success,
                !.called = SetupSteps(parse, testOnly, device)
                           \o (IF ~checked THEN <<>>
                               ELSE <<"checkInputParameters", "printFinalConfiguration">>),
                !.thrown = "none",
                !.setup = [reached |-> reached, check |-> check, ret |-> success,
                           testOnly |-> parse = "ok" /\ testOnly],
                !.n = @ + 1]

\* faulty variant: the device is selected and programmed in test mode as well
setupBenchmark_device_in_test(obj, parse, testOnly, skipValidation, dumpfile, device, check) ==
    LET reached == parse = "ok" /\ device = "ok"
        checked == reached /\ obj.mpi_comm_rank = 0
        success == reached /\ (checked => check)
    IN  IF parse = "exit"
        THEN [obj EXCEPT !.exited = TRUE, !.op = "exit", !.called = <<"parseProgramParameters">>,
                         !.thrown = "none", !.n = @ + 1]
        ELSE [obj EXCEPT
                !.executionSettings =
                    IF reached
                    THEN [testOnly |-> testOnly, skipValidation |-> skipValidation, dumpfile |-> dumpfile]
                    ELSE @,
                !.benchmark_setup_succeeded = success,
                !.op = "setupBenchmark", !.ret = success,
                !.called = SetupSteps(parse, FALSE, device)
                           \o (IF ~checked THEN <<>>
                               ELSE IF check THEN <<"checkInputParameters", "printFinalConfiguration">>
                               ELSE <<"checkInputParameters">>),
                !.thrown = IF parse = "throw" THEN "parseProgramParameters"
                           ELSE IF ~reached THEN "selectFPGADevice"
                           ELSE IF checked /\ ~check THEN "setupBenchmark"
                           ELSE "none",
                !.setup = [reached |-> reached, check |-> check, ret |-> success,
                           testOnly |-> parse = "ok" /\ testOnly],
                !.n = @ + 1]

\* setupBenchmark. parse is the outcome of parseProgramParameters (ok, throw,
\* or exit for the help option, which ends the process), device the outcome
\* of selecting the device, check what checkInputParameters returns when
\* called; testOnly, skipValidation and dumpfile (dumpfilePath is not empty)
\* are the program settings the arguments give
setupBenchmark(obj, parse, testOnly, skipValidation, dumpfile, device, check) ==
    LET reached == parse = "ok" /\ (testOnly \/ device = "ok")
        checked == reached /\ obj.mpi_comm_rank = 0
        success == reached /\ (checked => check)
    IN  IF parse = "exit"
        THEN [obj EXCEPT !.exited = TRUE, !.op = "exit", !.called = <<"parseProgramParameters">>,
                         !.thrown = "none", !.n = @ + 1]
        ELSE [obj EXCEPT
                !.executionSettings =
                    IF reached
                    THEN [testOnly |-> testOnly, skipValidation |-> skipValidation, dumpfile |-> dumpfile]
                    ELSE @,
                !.benchmark_setup_succeeded = success,
                !.op = "setupBenchmark", !.ret = success,
                !.called = SetupSteps(parse, testOnly, device)
                           \o (IF ~checked THEN <<>>
                               ELSE IF check THEN <<"checkInputParameters", "printFinalConfiguration">>
                               ELSE <<"checkInputParameters">>),
                !.thrown = IF parse = "throw" THEN "parseProgramParameters"
                           ELSE IF ~reached THEN "selectFPGADevice"
                           ELSE IF checked /\ ~check THEN "setupBenchmark"
                           ELSE "none",
                !.setup = [reached |-> reached, check |-> check, ret |-> success,
                           testOnly |-> parse = "ok" /\ testOnly],
                !.n = @ + 1]

\* faulty variant: every phase is called, whatever the settings and the rank
ExecuteSteps_unconditional(obj) ==
    <<"generateInputData", "executeKernel", "validateOutput", "printError",
      "collectResults", "dumpConfigurationAndResults", "printResults">>

\* the methods executeBenchmark calls in its try block, in order
ExecuteSteps(obj) ==
    <<"generateInputData", "executeKernel">>
    \o (IF obj.executionSettings.skipValidation THEN <<>>
        ELSE <<"validateOutput">>
             \o (IF obj.mpi_comm_rank = 0 THEN <<"printError">> ELSE <<>>))
    \o <<"collectResults">>
    \o (IF obj.mpi_comm_rank = 0
        THEN (IF obj.executionSettings.dumpfile THEN <<"dumpConfigurationAndResults">> ELSE <<>>)
             \o <<"printResults">>
        ELSE <<>>)

\* faulty variant: the handler of the exception returns the result of the
\* validation
ExecuteBody_keeps_result(obj, fail_at, valid_output) ==
    LET steps == ExecuteSteps(obj)
        thrown == {x \in 1 .. Len(steps) : steps[x] = fail_at}
        last == IF thrown = {} THEN Len(steps) ELSE CHOOSE x \in thrown : TRUE
        called == SubSeq(steps, 1, last)
        validated ==
            IF \E x \in 1 .. last : steps[x] = "validateOutput" /\ fail_at # "validateOutput"
            THEN valid_output ELSE obj.validated
    IN  IF obj.executionSettings.testOnly
        THEN [obj EXCEPT !.op = "executeBenchmark", !.ret = obj.benchmark_setup_succeeded,
                         !.called = <<>>, !.thrown = "none", !.output = valid_output,
                         !.n = @ + 1]
        ELSE [obj EXCEPT !.op = "executeBenchmark", !.validated = validated,
                         !.ret = validated,
                         !.called = called,
                         !.thrown = IF thrown = {} THEN "none" ELSE fail_at,
                         !.output = valid_output,
                         !.n = @ + 1]

\* the body of executeBenchmark after the test of benchmark_setup_succeeded.
\* fail_at is the method that throws, or none; valid_output what
\* validateOutput returns
ExecuteBody(obj, fail_at, valid_output) ==
    LET steps == ExecuteSteps(obj)
        thrown == {x \in 1 .. Len(steps) : steps[x] = fail_at}
        last == IF thrown = {} THEN Len(steps) ELSE CHOOSE x \in thrown : TRUE
        called == SubSeq(steps, 1, last)
        validated ==
            IF \E x \in 1 .. last : steps[x] = "validateOutput" /\ fail_at # "validateOutput"
            THEN valid_output ELSE obj.validated
    IN  IF obj.executionSettings.testOnly
        THEN [obj EXCEPT !.op = "executeBenchmark", !.ret = obj.benchmark_setup_succeeded,
                         !.called = <<>>, !.thrown = "none", !.output = valid_output,
                         !.n = @ + 1]
        ELSE [obj EXCEPT !.op = "executeBenchmark", !.validated = validated,
                         !.ret = IF thrown = {} THEN validated ELSE FALSE,
                         !.called = called,
                         !.thrown = IF thrown = {} THEN "none" ELSE fail_at,
                         !.output = valid_output,
                         !.n = @ + 1]

\* faulty variant: the setup flag is not tested; without execution settings
\* nothing can be run
executeBenchmark_unguarded(obj, fail_at, valid_output) ==
    IF obj.executionSettings = <<>>
    THEN [obj EXCEPT !.op = "executeBenchmark", !.ret = FALSE, !.called = <<>>,
                     !.thrown = "none", !.output = valid_output, !.n = @ + 1]
    ELSE ExecuteBody(obj, fail_at, valid_output)

executeBenchmark(obj, fail_at, valid_output) ==
    IF ~obj.benchmark_setup_succeeded
    THEN [obj EXCEPT !.op = "executeBenchmark", !.ret = FALSE, !.called = <<>>,
                     !.thrown = "none", !.output = valid_output, !.n = @ + 1]
    ELSE ExecuteBody(obj, fail_at, valid_output)

-----------------------------------------------------------------------------
(* The actions of the lu kernel *)

cfgvars == <<LOCAL_MEM_BLOCK_LOG, REGISTER_BLOCK_LOG, blocks_per_row, a_in, num_replications>>
updatevars == <<top_block, left_block, top_update, left_update, inner_update_mm, a_stage>>

BufferRange == 0 .. (BLOCK_SIZE * BLOCK_SIZE - 1)
UninitGlobalBuffer == [x \in BufferRange |-> Uninit]

LuLoadAction ==
    /\ lu.pc = "load"
    /\ lu' = LuLoad(lu, a)
    /\ UNCHANGED <<cfgvars, benchmark, jsonify, updatevars, host, log, a, a_block_trans, a_block>>

LuFactorAction ==
    /\ lu.pc = "lu_block"
    /\ lu' = LuFactorStep(lu)
    /\ UNCHANGED <<cfgvars, benchmark, jsonify, updatevars, host, log, a, a_block_trans, a_block>>

LuUpdateAction ==
    /\ lu.pc = "update"
    /\ lu' = LuUpdateIter(lu)
    /\ UNCHANGED <<cfgvars, benchmark, jsonify, updatevars, host, log, a, a_block_trans, a_block>>

\* Store block to global memory, also transposed
LuStoreAction ==
    /\ lu.pc = "store"
    /\ a' = StoreBlock(a, lu.a_buffer, lu.block_col, lu.block_row)
    /\ a_block_trans' = StoreBufferTransposed(lu.a_buffer)
    /\ a_block' = StoreBuffer(lu.a_buffer)
    /\ lu' = [lu EXCEPT !.pc = "done"]
    /\ log' = log \cup {<<"lu", host.k, lu.block_row, lu.block_col>>}
    /\ UNCHANGED <<cfgvars, benchmark, jsonify, updatevars, host>>

-----------------------------------------------------------------------------
(* A single run of the lu kernel on a one-block matrix *)

Init ==
    /\ LOCAL_MEM_BLOCK_LOG \in 0 .. MaxBlockLog
    /\ REGISTER_BLOCK_LOG \in 0 .. LOCAL_MEM_BLOCK_LOG
    /\ blocks_per_row = 1
    /\ \E seed \in 0 .. MaxSeed : a_in = InputMatrix(Pow2(LOCAL_MEM_BLOCK_LOG), seed)
    /\ a = a_in
    /\ a_block_trans = [x \in 0 .. (Pow2(LOCAL_MEM_BLOCK_LOG) * Pow2(LOCAL_MEM_BLOCK_LOG) - 1) |-> Uninit]
    /\ a_block = a_block_trans
    /\ lu = KernelIdle
    /\ num_replications = 1
    /\ host = [k |-> 0, stage |-> "single", next |-> 0]
    /\ top_block = <<>>
    /\ left_block = <<>>
    /\ top_update = KernelIdle
    /\ left_update = KernelIdle
    /\ inner_update_mm = <<>>
    /\ log = {}
    /\ a_stage = <<>>
    /\ benchmark = HpccFpgaBenchmark(0)
    /\ jsonify = JsonIdle

\* the host starts lu on block (0, 0)
LuStart ==
    /\ host.stage = "single"
    /\ lu.pc = "idle"
    /\ lu' = LuLocals(0, 0)
    /\ UNCHANGED <<cfgvars, benchmark, jsonify, updatevars, host, log, a, a_block_trans, a_block>>

Next ==
    \/ LuStart
    \/ LuLoadAction
    \/ LuFactorAction
    \/ LuUpdateAction
    \/ LuStoreAction

Spec == Init /\ [][Next]_vars

-----------------------------------------------------------------------------
(* The block scheduler and the update kernels it starts *)

BlockRange == 0 .. (blocks_per_row - 1)

\* the blocks (i, j) of the trailing matrix of step k
TrailingBlocks(k) == {b \in BlockRange \X BlockRange : b[1] > k /\ b[2] > k}

\* the host starts lu on the diagonal block of step k
HostStartLu ==
    /\ host.stage = "lu"
    /\ lu.pc = "idle"
    /\ lu' = LuLocals(host.k, host.k)
    /\ UNCHANGED <<cfgvars, benchmark, jsonify, updatevars, host, log, a, a_block_trans, a_block>>

\* lu has finished: the row updates of step k follow
HostLuDone ==
    /\ host.stage = "lu"
    /\ lu.pc = "done"
    /\ lu' = KernelIdle
    /\ host' = [host EXCEPT !.stage = "top", !.next = host.k + 1]
    /\ UNCHANGED <<cfgvars, benchmark, jsonify, updatevars, log, a, a_block_trans, a_block>>

\* top_update on block (k, next)
TopStart ==
    /\ host.stage = "top"
    /\ host.next < blocks_per_row
    /\ top_update.pc = "idle"
    /\ top_update' = UpdateLocals(host.next, host.k)
    /\ UNCHANGED <<cfgvars, benchmark, jsonify, host, log, a, a_block_trans, a_block, lu,
                   top_block, left_block, left_update, inner_update_mm, a_stage>>

TopLoadAction ==
    /\ top_update.pc = "load"
    /\ top_update' = UpdateLoad(top_update, a)
    /\ UNCHANGED <<cfgvars, benchmark, jsonify, host, log, a, a_block_trans, a_block, lu,
                   top_block, left_block, left_update, inner_update_mm, a_stage>>

TopStepAction ==
    /\ top_update.pc = "step"
    /\ top_update' = UpdateAfterStep(top_update, TopStep(top_update.a_buffer, a_block_trans, top_update.gk))
    /\ UNCHANGED <<cfgvars, benchmark, jsonify, host, log, a, a_block_trans, a_block, lu,
                   top_block, left_block, left_update, inner_update_mm, a_stage>>

\* Store block to global memory and separately in top_block
TopStoreAction ==
    /\ top_update.pc = "store"
    /\ a' = StoreBlock(a, top_update.a_buffer, top_update.block_col, top_update.block_row)
    /\ top_block' = [top_block EXCEPT ![top_update.block_col] = StoreBuffer(top_update.a_buffer)]
    /\ top_update' = [top_update EXCEPT !.pc = "done"]
    /\ log' = log \cup {<<"top_update", host.k, top_update.block_row, top_update.block_col>>}
    /\ UNCHANGED <<cfgvars, benchmark, jsonify, host, a_block_trans, a_block, lu, left_block, left_update,
                   inner_update_mm, a_stage>>

HostTopDone ==
    /\ host.stage = "top"
    /\ top_update.pc = "done"
    /\ top_update' = KernelIdle
    /\ host' = [host EXCEPT !.next = host.next + 1]
    /\ UNCHANGED <<cfgvars, benchmark, jsonify, log, a, a_block_trans, a_block, lu,
                   top_block, left_block, left_update, inner_update_mm, a_stage>>

\* every block of row k is updated: the column updates follow
HostTopStageDone ==
    /\ host.stage = "top"
    /\ host.next >= blocks_per_row
    /\ top_update.pc = "idle"
    /\ host' = [host EXCEPT !.stage = "left", !.next = host.k + 1]
    /\ UNCHANGED <<cfgvars, benchmark, jsonify, updatevars, log, a, a_block_trans, a_block, lu>>

\* left_update on block (next, k)
LeftStart ==
    /\ host.stage = "left"
    /\ host.next < blocks_per_row
    /\ left_update.pc = "idle"
    /\ left_update' = UpdateLocals(host.k, host.next)
    /\ UNCHANGED <<cfgvars, benchmark, jsonify, host, log, a, a_block_trans, a_block, lu,
                   top_block, left_block, top_update, inner_update_mm, a_stage>>

LeftLoadAction ==
    /\ left_update.pc = "load"
    /\ left_update' = UpdateLoad(left_update, a)
    /\ UNCHANGED <<cfgvars, benchmark, jsonify, host, log, a, a_block_trans, a_block, lu,
                   top_block, left_block, top_update, inner_update_mm, a_stage>>

LeftStepAction ==
    /\ left_update.pc = "step"
    /\ left_update' = UpdateAfterStep(left_update, LeftStep(left_update.a_buffer, a_block, left_update.gk))
    /\ UNCHANGED <<cfgvars, benchmark, jsonify, host, log, a, a_block_trans, a_block, lu,
                   top_block, left_block, top_update, inner_update_mm, a_stage>>

\* Store block to global memory and transposed in left_block
LeftStoreAction ==
    /\ left_update.pc = "store"
    /\ a' = StoreBlock(a, left_update.a_buffer, left_update.block_col, left_update.block_row)
    /\ left_block' = [left_block EXCEPT ![left_update.block_row] = StoreBufferTransposed(left_update.a_buffer)]
    /\ left_update' = [left_update EXCEPT !.pc = "done"]
    /\ log' = log \cup {<<"left_update", host.k, left_update.block_row, left_update.block_col>>}
    /\ UNCHANGED <<cfgvars, benchmark, jsonify, host, a_block_trans, a_block, lu, top_block, top_update,
                   inner_update_mm, a_stage>>

HostLeftDone ==
    /\ host.stage = "left"
    /\ left_update.pc = "done"
    /\ left_update' = KernelIdle
    /\ host' = [host EXCEPT !.next = host.next + 1]
    /\ UNCHANGED <<cfgvars, benchmark, jsonify, log, a, a_block_trans, a_block, lu,
                   top_block, left_block, top_update, inner_update_mm, a_stage>>

\* every block of column k is updated: the trailing updates follow
HostLeftStageDone ==
    /\ host.stage = "left"
    /\ host.next >= blocks_per_row
    /\ left_update.pc = "idle"
    /\ host' = [host EXCEPT !.stage = "inner"]
    /\ inner_update_mm' = [b \in TrailingBlocks(host.k) |-> KernelIdle]
    /\ a_stage' = a
    /\ UNCHANGED <<cfgvars, benchmark, jsonify, log, a, a_block_trans, a_block, lu,
                   top_block, left_block, top_update, left_update>>

\* the instances that have been started and have not stored their block
InnerRunning == {b \in DOMAIN inner_update_mm : inner_update_mm[b].pc = "update"}

\* a free replication of inner_update_mm is started on block b and loads its
\* inputs
InnerLoadAction(b) ==
    /\ host.stage = "inner"
    /\ inner_update_mm[b].pc = "idle"
    /\ Cardinality(InnerRunning) < num_replications
    /\ inner_update_mm' = [inner_update_mm EXCEPT ![b] =
                    InnerLoad(a, left_block[b[1]], top_block[b[2]], b[2], b[1])]
    /\ UNCHANGED <<cfgvars, benchmark, jsonify, host, log, a, a_block_trans, a_block, lu,
                   top_block, left_block, top_update, left_update, a_stage>>

\* the instance on block b runs its update loop and stores the block
InnerUpdateStoreAction(b) ==
    /\ host.stage = "inner"
    /\ inner_update_mm[b].pc = "update"
    /\ a' = InnerUpdateStore(a, inner_update_mm[b])
    /\ inner_update_mm' = [inner_update_mm EXCEPT ![b] = [pc |-> "done"]]
    /\ log' = log \cup {<<"inner_update_mm", host.k, b[1], b[2]>>}
    /\ UNCHANGED <<cfgvars, benchmark, jsonify, host, a_block_trans, a_block, lu,
                   top_block, left_block, top_update, left_update, a_stage>>

\* every trailing block is updated: step k is complete
HostStepDone ==
    /\ host.stage = "inner"
    /\ \A b \in DOMAIN inner_update_mm : inner_update_mm[b].pc = "done"
    /\ inner_update_mm' = <<>>
    /\ host' = [host EXCEPT !.k = host.k + 1, !.next = 0,
                            !.stage = IF host.k + 1 < blocks_per_row THEN "lu" ELSE "done"]
    /\ UNCHANGED <<cfgvars, benchmark, jsonify, log, a, a_block_trans, a_block, lu,
                   top_block, left_block, top_update, left_update, a_stage>>

\* the largest matrix of a scheduled run, in elements per row and in blocks,
\* and the largest number of inner_update_mm replications
MaxMatrixSize == 8
MaxBlocks == 9
MaxReplications == 2

InitSched ==
    /\ LOCAL_MEM_BLOCK_LOG \in 0 .. MaxBlockLog
    /\ REGISTER_BLOCK_LOG \in 0 .. LOCAL_MEM_BLOCK_LOG
    /\ blocks_per_row \in 1 .. MaxBlocks
    /\ blocks_per_row * blocks_per_row <= MaxBlocks
    /\ Pow2(LOCAL_MEM_BLOCK_LOG) * blocks_per_row <= MaxMatrixSize
    /\ \E seed \in 0 .. MaxSeed :
          a_in = InputMatrix(Pow2(LOCAL_MEM_BLOCK_LOG) * blocks_per_row, seed)
    /\ a = a_in
    /\ a_block_trans = [x \in 0 .. (Pow2(LOCAL_MEM_BLOCK_LOG) * Pow2(LOCAL_MEM_BLOCK_LOG) - 1) |-> Uninit]
    /\ a_block = a_block_trans
    /\ lu = KernelIdle
    /\ num_replications \in 1 .. MaxReplications
    /\ host = [k |-> 0, stage |-> "lu", next |-> 0]
    /\ top_block = [j \in 0 .. (blocks_per_row - 1) |-> a_block_trans]
    /\ left_block = [i \in 0 .. (blocks_per_row - 1) |-> a_block_trans]
    /\ top_update = KernelIdle
    /\ left_update = KernelIdle
    /\ inner_update_mm = <<>>
    /\ log = {}
    /\ a_stage = a_in
    /\ benchmark = HpccFpgaBenchmark(0)
    /\ jsonify = JsonIdle

NextSched ==
    \/ HostStartLu
    \/ LuLoadAction
    \/ LuFactorAction
    \/ LuUpdateAction
    \/ LuStoreAction
    \/ HostLuDone
    \/ TopStart
    \/ TopLoadAction
    \/ TopStepAction
    \/ TopStoreAction
    \/ HostTopDone
    \/ HostTopStageDone
    \/ LeftStart
    \/ LeftLoadAction
    \/ LeftStepAction
    \/ LeftStoreAction
    \/ HostLeftDone
    \/ HostLeftStageDone
    \/ \E b \in DOMAIN inner_update_mm : InnerLoadAction(b)
    \/ \E b \in DOMAIN inner_update_mm : InnerUpdateStoreAction(b)
    \/ HostStepDone

SpecSched == InitSched /\ [][NextSched]_vars

-----------------------------------------------------------------------------
(* Calls of setupBenchmark and executeBenchmark on a benchmark object *)

kernelvars == <<a, a_block_trans, a_block, lu, host, top_block, left_block,
                top_update, left_update, inner_update_mm, log, a_stage>>

\* a process of any rank has constructed its benchmark object; no kernel has
\* been started
InitHost ==
    /\ LOCAL_MEM_BLOCK_LOG = 0
    /\ REGISTER_BLOCK_LOG = 0
    /\ blocks_per_row = 1
    /\ a_in = <<>>
    /\ a = <<>>
    /\ a_block_trans = <<>>
    /\ a_block = <<>>
    /\ lu = KernelIdle
    /\ num_replications = 1
    /\ host = [k |-> 0, stage |-> "setup", next |-> 0]
    /\ top_block = <<>>
    /\ left_block = <<>>
    /\ top_update = KernelIdle
    /\ left_update = KernelIdle
    /\ inner_update_mm = <<>>
    /\ log = {}
    /\ a_stage = <<>>
    /\ \E rank \in 0 .. MaxRank : benchmark = HpccFpgaBenchmark(rank)
    /\ jsonify = JsonIdle

SetupBenchmarkCall ==
    /\ ~benchmark.exited
    /\ benchmark.n < MaxCalls
    /\ \E parse \in {"ok", "throw", "exit"}, device \in {"ok", "throw"},
          testOnly \in BOOLEAN, skipValidation \in BOOLEAN, dumpfile \in BOOLEAN,
          check \in BOOLEAN :
          benchmark' = setupBenchmark(benchmark, parse, testOnly, skipValidation, dumpfile,
                                      device, check)
    /\ UNCHANGED <<cfgvars, kernelvars, jsonify>>

ExecuteBenchmarkCall ==
    /\ ~benchmark.exited
    /\ benchmark.n < MaxCalls
    /\ \E fail_at \in {"none", "generateInputData", "executeKernel", "validateOutput",
                       "printError", "collectResults", "dumpConfigurationAndResults",
                       "printResults"},
          valid_output \in BOOLEAN :
          benchmark' = executeBenchmark(benchmark, fail_at, valid_output)
    /\ UNCHANGED <<cfgvars, kernelvars, jsonify>>

NextHost ==
    \/ SetupBenchmarkCall
    \/ ExecuteBenchmarkCall

SpecHost == InitHost /\ [][NextHost]_vars

-----------------------------------------------------------------------------
(* The unblocked reference recurrence on an n x n row-major matrix *)

RefStep(A, n, s) ==
    LET inv == RNegInv(A[s * n + s])
        line == Eager([i \in 0 .. (n - 1) |->
                    IF i > s THEN RMul(A[s * n + i], inv)
                    ELSE IF i = s THEN inv ELSE A[s * n + i]])
    IN  Eager([x \in 0 .. (n * n - 1) |->
            LET j == x \div n
                i == x % n
            IN  IF j = s THEN line[i]
                ELSE IF j > s /\ i > s THEN RAdd(A[x], RMul(line[i], A[j * n + s]))
                ELSE A[x]])

RECURSIVE RefFrom(_, _, _)
RefFrom(A, n, s) == IF s >= n THEN A ELSE RefFrom(RefStep(A, n, s), n, s + 1)

RefLU(A, n) == RefFrom(A, n, 0)

\* every pivot the recurrence divides by is a non-zero number
NonZeroPivots(A, n) == \A x \in 0 .. (n * n - 1) : IsNum(RefLU(A, n)[x])

RECURSIVE DotFrom(_, _, _, _)
\* sum over m = from .. n-1 of F[m] * G[m]
DotFrom(F, G, n, from) ==
    IF from >= n THEN Zero ELSE RAdd(RMul(F[from], G[from]), DotFrom(F, G, n, from + 1))

\* the product of two n x n matrices given by their entries
MatMul(P, Q, n) ==
    [x \in 0 .. (n * n - 1) |->
        DotFrom([m \in 0 .. (n - 1) |-> P[(x \div n) * n + m]],
                [m \in 0 .. (n - 1) |-> Q[m * n + (x % n)]], n, 0)]

RECURSIVE RowAbsSumOf(_, _, _, _)
\* sum of the absolute values of the off-diagonal entries of row i
RowAbsSumOf(A, n, i, j) ==
    IF j >= n THEN 0
    ELSE (IF j = i THEN 0 ELSE Abs(A[i * n + j][1])) + RowAbsSumOf(A, n, i, j + 1)

IsDiagonallyDominant(A, n) ==
    \A i \in 0 .. (n - 1) :
        LET d == A[i * n + i]
        IN  /\ d[1] > 0
            /\ \A j \in 0 .. (n - 1) : A[i * n + j][2] = 1
            /\ d[1] > RowAbsSumOf(A, n, i, 0)

LuDone == host.stage = "single" /\ lu.pc = "done"

\* lu_block has been called in the current run of lu
LuBlockCalled == lu.pc \in {"update", "lu_block", "store", "done"} /\ (lu.pc = "lu_block" => lu.gk > 0)

-----------------------------------------------------------------------------
(* C1: the block written back by the lu kernel equals the unblocked        *)
(* reference recurrence applied to the input block, for every BLOCK_SIZE   *)
(* and GEMM_BLOCK and every input with non-zero pivots.                    *)
C1_LuEqualsReference ==
    (LuDone /\ NonZeroPivots(a_in, MatrixSize)) => a = RefLU(a_in, MatrixSize)

C1_Witness ==
    /\ LuDone
    /\ NonZeroPivots(a_in, MatrixSize)
    /\ GEMM_BLOCK >= 2
    /\ NB >= 2
    /\ a # a_in

-----------------------------------------------------------------------------
(* C2 *)

\* the pivot recovered from the stored negative reciprocal
PivotOf(A, n, s) == RNegInv(A[s * n + s])

\* as the claim reads the result: L unit lower triangular with the stored
\* entries, U upper triangular with the stored entries and the pivots
ClaimedL(A, n) ==
    [x \in 0 .. (n * n - 1) |->
        IF x \div n = x % n THEN Rat(1) ELSE IF x \div n > x % n THEN A[x] ELSE Zero]
ClaimedU(A, n) ==
    [x \in 0 .. (n * n - 1) |->
        IF x \div n = x % n THEN PivotOf(A, n, x \div n)
        ELSE IF x \div n < x % n THEN A[x] ELSE Zero]

\* as the kernel stores it: the lower factor carries the pivots, the upper
\* factor is unit diagonal and stored negated
StoredL(A, n) ==
    [x \in 0 .. (n * n - 1) |->
        IF x \div n = x % n THEN PivotOf(A, n, x \div n)
        ELSE IF x \div n > x % n THEN A[x] ELSE Zero]
StoredU(A, n) ==
    [x \in 0 .. (n * n - 1) |->
        IF x \div n = x % n THEN Rat(1)
        ELSE IF x \div n < x % n THEN RMul(Rat(-1), A[x]) ELSE Zero]

\* C2 as stated: L (unit diagonal, stored entries below) times U (pivots on
\* the diagonal, stored entries above) reproduces a diagonally dominant input.
C2_ClaimedRoundTrip ==
    (LuDone /\ IsDiagonallyDominant(a_in, MatrixSize))
        => MatMul(ClaimedL(a, MatrixSize), ClaimedU(a, MatrixSize), MatrixSize) = a_in

\* C2 amended: the product of the lower triangular matrix holding the stored
\* entries below the diagonal and the pivots on it, and the unit-diagonal
\* upper triangular matrix holding the negated stored entries above the
\* diagonal, reproduces a diagonally dominant input.
C2_StoredRoundTrip ==
    (LuDone /\ IsDiagonallyDominant(a_in, MatrixSize))
        => MatMul(StoredL(a, MatrixSize), StoredU(a, MatrixSize), MatrixSize) = a_in

C2_Witness ==
    /\ LuDone
    /\ IsDiagonallyDominant(a_in, MatrixSize)
    /\ BLOCK_SIZE >= 4
    /\ NB >= 2
    /\ \E x \in DOMAIN a : a[x][2] > 1

-----------------------------------------------------------------------------
(* C4: lu_block with step s uses A[s][s] as pivot and writes row s as       *)
(* A_out[s][s] = -1/A[s][s], A_out[s][i] = A[s][i] * (-1/A[s][s]) for       *)
(* i > s and A_out[s][i] = A[s][i] for i < s.                               *)
C4_PivotRow ==
    LuBlockCalled =>
        LET A == lu.lu_a_buffer_in
            A_out == lu.lu_a_buffer_out
            s == lu.kk
        IN  /\ A_out[s][s] = RNegInv(A[s][s])
            /\ \A i \in GRange : i > s => A_out[s][i] = RMul(A[s][i], RNegInv(A[s][s]))
            /\ \A i \in GRange : i < s => A_out[s][i] = A[s][i]

C4_Witness ==
    /\ LuBlockCalled
    /\ lu.kk >= 1
    /\ lu.kk < GEMM_BLOCK - 1
    /\ \E i \in GRange : i < lu.kk /\ lu.lu_a_buffer_in[lu.kk][i] # Zero
    /\ \E j \in GRange : j > lu.kk /\ RAbsLess(lu.lu_a_buffer_in[lu.kk][lu.kk], lu.lu_a_buffer_in[j][lu.kk])

-----------------------------------------------------------------------------
(* C5: lu_block with step s changes, among the rows j # s, only the entries *)
(* with j > s and i > s, to A[j][i] + A_out[s][i] * A[j][s]; every other    *)
(* entry of these rows is copied (column s is not scaled).                  *)
C5_OtherRows ==
    LuBlockCalled =>
        LET A == lu.lu_a_buffer_in
            A_out == lu.lu_a_buffer_out
            s == lu.kk
        IN  \A j \in GRange, i \in GRange :
                j # s =>
                    A_out[j][i] = IF j > s /\ i > s
                                  THEN RAdd(A[j][i], RMul(A_out[s][i], A[j][s]))
                                  ELSE A[j][i]

C5_Witness ==
    /\ LuBlockCalled
    /\ lu.kk >= 1
    /\ lu.kk < GEMM_BLOCK - 1
    /\ \E j \in GRange : j > lu.kk /\ lu.lu_a_buffer_out[j][lu.kk] \notin {Zero, Rat(1), Rat(-1)}
    /\ \E j \in GRange, i \in GRange :
          j > lu.kk /\ i > lu.kk /\ lu.lu_a_buffer_out[j][i] # lu.lu_a_buffer_in[j][i]

-----------------------------------------------------------------------------
(* The kernels as functions of their arguments, and the factorization with *)
(* a single inner_update_mm kernel that takes the blocks in row-major      *)
(* order                                                                   *)

RECURSIVE LuUpdateLoop(_)
\* the ttj loop of lu to its end
LuUpdateLoop(loc) ==
    IF loc.pc = "update"
    THEN LET next == LuUpdateIter(loc)
         IN  IF next = next THEN LuUpdateLoop(next) ELSE next
    ELSE loc

RECURSIVE LuFactorLoop(_)
\* the gk loop of lu to its end
LuFactorLoop(loc) ==
    IF loc.pc = "lu_block"
    THEN LET next == LuUpdateLoop(LuFactorStep(loc))
         IN  IF next = next THEN LuFactorLoop(next) ELSE next
    ELSE loc

\* the local block of lu when it reaches its store loops
LuResult(mem, block_col, block_row) ==
    LuFactorLoop(LuLoad(LuLocals(block_col, block_row), mem)).a_buffer

RECURSIVE TopLoop(_, _, _)
\* the gk loop of top_update from iteration gk on
TopLoop(a_buffer, lu_global_buffer_transposed, gk) ==
    IF gk >= BLOCK_SIZE THEN a_buffer
    ELSE LET next == TopStep(a_buffer, lu_global_buffer_transposed, gk)
         IN  IF next = next
             THEN TopLoop(next, lu_global_buffer_transposed, gk + 1)
             ELSE next

RECURSIVE LeftLoop(_, _, _)
\* the gk loop of left_update from iteration gk on
LeftLoop(a_buffer, lu_global_buffer, gk) ==
    IF gk >= BLOCK_SIZE THEN a_buffer
    ELSE LET next == LeftStep(a_buffer, lu_global_buffer, gk)
         IN  IF next = next
             THEN LeftLoop(next, lu_global_buffer, gk + 1)
             ELSE next

\* the device memory the kernels share
Memory(mem, lub, lubt, tops, lefts) ==
    [a |-> mem, a_block |-> lub, a_block_trans |-> lubt, top_block |-> tops, left_block |-> lefts]

SeqLu(m, k) ==
    LET a_buffer == LuResult(m.a, k, k)
    IN  [m EXCEPT !.a = StoreBlock(m.a, a_buffer, k, k),
                  !.a_block_trans = StoreBufferTransposed(a_buffer),
                  !.a_block = StoreBuffer(a_buffer)]

RECURSIVE SeqTop(_, _, _)
\* top_update on the blocks (k, j), (k, j+1), ...
SeqTop(m, k, j) ==
    IF j >= blocks_per_row THEN m
    ELSE LET a_buffer == TopLoop(LoadBlock(m.a, j, k), m.a_block_trans, 0)
         IN  SeqTop([m EXCEPT !.a = StoreBlock(m.a, a_buffer, j, k),
                              !.top_block[j] = StoreBuffer(a_buffer)], k, j + 1)

RECURSIVE SeqLeft(_, _, _)
\* left_update on the blocks (i, k), (i+1, k), ...
SeqLeft(m, k, i) ==
    IF i >= blocks_per_row THEN m
    ELSE LET a_buffer == LeftLoop(LoadBlock(m.a, k, i), m.a_block, 0)
         IN  SeqLeft([m EXCEPT !.a = StoreBlock(m.a, a_buffer, k, i),
                               !.left_block[i] = StoreBufferTransposed(a_buffer)], k, i + 1)

\* the first block of a set in row-major order
FirstBlock(S) == CHOOSE b \in S : \A c \in S : b[1] < c[1] \/ (b[1] = c[1] /\ b[2] <= c[2])

RECURSIVE SeqInner(_, _, _, _)
\* inner_update_mm on the blocks of S, one instance after the other
SeqInner(mem, lefts, tops, S) ==
    IF S = {} THEN mem
    ELSE LET b == FirstBlock(S)
             loc == InnerLoad(mem, lefts[b[1]], tops[b[2]], b[2], b[1])
         IN  SeqInner(Eager(InnerUpdateStore(mem, loc)), lefts, tops, S \ {b})

RECURSIVE SeqSteps(_, _)
SeqSteps(m, k) ==
    IF k >= blocks_per_row THEN m
    ELSE LET m1 == SeqLu(m, k)
             m2 == SeqTop(m1, k, k + 1)
             m3 == SeqLeft(m2, k, k + 1)
             m4 == [m3 EXCEPT !.a = SeqInner(m3.a, m3.left_block, m3.top_block,
                                             TrailingBlocks(k))]
         IN  SeqSteps(m4, k + 1)

\* the factorized matrix with one replication
FactorizeSequential(A) ==
    SeqSteps(Memory(A, UninitGlobalBuffer, UninitGlobalBuffer,
                    [j \in BlockRange |-> UninitGlobalBuffer],
                    [i \in BlockRange |-> UninitGlobalBuffer]), 0).a

\* block (block_row, block_col) of the matrix as a BLOCK_SIZE x BLOCK_SIZE buffer
BlockOf(mem, block_row, block_col) ==
    [x \in BufferRange |->
        mem[(block_row * BLOCK_SIZE + (x \div BLOCK_SIZE)) * MatrixSize
            + block_col * BLOCK_SIZE + (x % BLOCK_SIZE)]]

Transposed(buf) ==
    [x \in BufferRange |-> buf[(x % BLOCK_SIZE) * BLOCK_SIZE + (x \div BLOCK_SIZE)]]

\* the indices of the matrix elements inside block (block_row, block_col)
BlockElements(block_row, block_col) ==
    {x \in 0 .. (MatrixSize * MatrixSize - 1) :
        /\ (x \div MatrixSize) \div BLOCK_SIZE = block_row
        /\ (x % MatrixSize) \div BLOCK_SIZE = block_col}

HostDone == host.stage = "done"

-----------------------------------------------------------------------------
(* C3: for blocks_per_row = 2 the kernel sequence lu (0,0), top_update     *)
(* (0,1), left_update (1,0), inner_update_mm (1,1), lu (1,1) leaves the     *)
(* matrix equal to the unblocked reference recurrence on the full matrix.  *)
C3_TwoBlocksEqualReference ==
    (HostDone /\ blocks_per_row = 2 /\ NonZeroPivots(a_in, MatrixSize))
        => a = RefLU(a_in, MatrixSize)

C3_Witness ==
    /\ HostDone
    /\ blocks_per_row = 2
    /\ NonZeroPivots(a_in, MatrixSize)
    /\ NB >= 2
    /\ GEMM_BLOCK >= 2
    /\ log = {<<"lu", 0, 0, 0>>, <<"top_update", 0, 0, 1>>, <<"left_update", 0, 1, 0>>,
              <<"inner_update_mm", 0, 1, 1>>, <<"lu", 1, 1, 1>>}

-----------------------------------------------------------------------------
(* C6 *)

\* the kernel runs of diagonal step k, as the log names them
StepOps(k) ==
    {<<"lu", k, k, k>>}
    \cup {<<"top_update", k, k, j>> : j \in {j \in BlockRange : j > k}}
    \cup {<<"left_update", k, i, k>> : i \in {i \in BlockRange : i > k}}
    \cup {<<"inner_update_mm", k, b[1], b[2]>> : b \in TrailingBlocks(k)}

\* every kernel run of the steps before k has stored its results
StepsCommitted(k) == \A m \in 0 .. (k - 1) : StepOps(m) \subseteq log

\* the micro-blocks that the update loop of iteration gk has to write
MicroUpdates(gk) ==
    IF LuUpdateGuard(gk)
    THEN {b \in NBRange \X NBRange :
            /\ b[1] >= gk \div GEMM_BLOCK
            /\ b[2] >= gk \div GEMM_BLOCK
            /\ b # <<gk \div GEMM_BLOCK, gk \div GEMM_BLOCK>>}
    ELSE {}

\* the micro-blocks written by the update_block calls logged in lu
MicroWritten == {<<lu.calls[n][1], lu.calls[n][2]>> : n \in DOMAIN lu.calls}

\* lu is about to read the diagonal micro-block for an iteration gk > 0, or
\* has left the loop
LuAtStepBoundary == (lu.pc = "lu_block" /\ lu.gk > 0) \/ lu.pc = "store"

\* C6: the host moves from step k to k+1, and starts a kernel of step k+1, only
\* when lu, every top_update, every left_update and every inner_update_mm of
\* step k have stored their results; inside lu, iteration gk+1 reads the block
\* only when every micro-block update of iteration gk has been written.
C6_StrictBarrier ==
    /\ StepsCommitted(host.k)
    /\ lu.pc # "idle" => (lu.block_row = host.k /\ StepsCommitted(lu.block_row))
    /\ top_update.pc # "idle" => (top_update.block_row = host.k /\ StepsCommitted(top_update.block_row))
    /\ left_update.pc # "idle" => (left_update.block_col = host.k /\ StepsCommitted(left_update.block_col))
    /\ \A e \in log : e[2] <= host.k
    /\ LuAtStepBoundary => MicroWritten = MicroUpdates(lu.gk - 1)

C6_Witness ==
    /\ host.k = 1
    /\ host.stage = "lu"
    /\ blocks_per_row >= 3
    /\ lu.pc = "lu_block"
    /\ lu.gk = GEMM_BLOCK
    /\ NB >= 2
    /\ Cardinality(MicroWritten) = NB * NB - 1

-----------------------------------------------------------------------------
(* C7 *)

\* lu of step k has stored the factorized diagonal block and its two copies
LuStored(k) ==
    /\ <<"lu", k, k, k>> \in log
    /\ a_block = BlockOf(a, k, k)
    /\ a_block_trans = Transposed(BlockOf(a, k, k))

\* C7: top_update and left_update of step k run only after lu has stored the
\* factorized diagonal block, a_block and a_block_trans; inner_update_mm on
\* block (i, j) runs only after top_update of (k, j) has stored top_block and
\* left_update of (i, k) has stored left_block.
C7_StageOrder ==
    /\ top_update.pc \in {"load", "step", "store"} => LuStored(top_update.block_row)
    /\ left_update.pc \in {"load", "step", "store"} => LuStored(left_update.block_col)
    /\ \A b \in DOMAIN inner_update_mm :
          inner_update_mm[b].pc = "update" =>
              /\ <<"top_update", host.k, host.k, b[2]>> \in log
              /\ <<"left_update", host.k, b[1], host.k>> \in log
              /\ top_block[b[2]] = BlockOf(a, host.k, b[2])
              /\ left_block[b[1]] = Transposed(BlockOf(a, b[1], host.k))

C7_Witness ==
    /\ host.k = 1
    /\ blocks_per_row >= 3
    /\ BLOCK_SIZE >= 2
    /\ \E b \in DOMAIN inner_update_mm : inner_update_mm[b].pc = "update"
    /\ left_block[2] # top_block[2]
    /\ a_block # a_block_trans

-----------------------------------------------------------------------------
(* C8 *)

\* element (r, c) of a block in local memory
Element(a_buffer, r, c) ==
    a_buffer[r \div GEMM_BLOCK][c \div GEMM_BLOCK][r % GEMM_BLOCK][c % GEMM_BLOCK]

\* no element in a block row or block column before step host.k changes
FinalBlocksKept ==
    \A x \in DOMAIN a :
        ((x \div MatrixSize) \div BLOCK_SIZE < host.k \/ (x % MatrixSize) \div BLOCK_SIZE < host.k)
            => a'[x] = a[x]

\* inside lu no element in a row or column before the current iteration changes
FinalMicroKept ==
    lu.pc \in {"lu_block", "update"} =>
        \A r \in BRange, c \in BRange :
            (r < lu.gk \/ c < lu.gk) => Element(lu'.a_buffer, r, c) = Element(lu.a_buffer, r, c)

\* C8: once step k is complete no later step changes a block in a block row or
\* block column up to k; in lu, an iteration gk changes no element in a row or
\* column below gk (no micro-block before the diagonal micro-block, and no
\* finished row or column inside the micro-blocks of its row and column).
C8_FinalDataKept == [][FinalBlocksKept /\ FinalMicroKept]_vars

C8_Witness ==
    /\ host.k = 1
    /\ host.stage = "lu"
    /\ lu.pc = "update"
    /\ lu.gk = GEMM_BLOCK + 1
    /\ NB >= 3
    /\ Len(lu.calls) >= 2
    /\ \E x \in DOMAIN a : x < MatrixSize /\ a[x] # a_in[x]

-----------------------------------------------------------------------------
(* C9 *)

\* the instances of the current step that have stored their block
InnerDone == {b \in DOMAIN inner_update_mm : inner_update_mm[b].pc = "done"}

\* the matrix is what running the finished instances one after the other on
\* the matrix of the stage start gives
InnerSerializable ==
    host.stage = "inner" => a = SeqInner(a_stage, left_block, top_block, InnerDone)

\* an instance that stores changes no element outside its block
InnerWritesOwnBlock ==
    \A b \in DOMAIN inner_update_mm :
        (inner_update_mm[b].pc = "update" /\ inner_update_mm'[b].pc = "done") =>
            \A x \in DOMAIN a : x \notin BlockElements(b[1], b[2]) => a'[x] = a[x]

\* C9: an inner_update_mm instance writes only the elements of its own block,
\* and whatever the interleaving of the loads and stores of the instances of a
\* step, the matrix equals the result of running them one after the other.
C9_InnerInstancesIndependent == []InnerSerializable /\ [][InnerWritesOwnBlock]_vars

C9_Witness ==
    /\ host.stage = "inner"
    /\ host.k = 0
    /\ num_replications >= 2
    /\ Cardinality(InnerRunning) = 2
    /\ Cardinality(InnerDone) = 2
    /\ FirstBlock(DOMAIN inner_update_mm) \in InnerRunning
    /\ a # a_stage

-----------------------------------------------------------------------------
(* C10: for every number of replications and every distribution of the      *)
(* trailing blocks over them, the factorized matrix is the one that a       *)
(* single replication produces.                                             *)
C10_ReplicationIndependent == HostDone => a = FactorizeSequential(a_in)

C10_Witness ==
    /\ HostDone
    /\ num_replications >= 2
    /\ blocks_per_row >= 3
    /\ BLOCK_SIZE >= 2
    /\ a # a_in

-----------------------------------------------------------------------------
(* C11 *)

\* the elements of a block in local memory
BufferValues(a_buffer) ==
    {a_buffer[q[1]][q[3]][q[2]][q[4]] : q \in Quads}

\* the elements of a row of chunks
ChunkValues(chunks, S) == {chunks[c][i] : c \in S, i \in GRange}

\* the values that iteration ttj of the update loop of lu hands to the
\* computation of update_block: a_input, second_input and, for an inner
\* micro-block, top_input
LuUpdateReads(loc) ==
    LET k == loc.gk \div GEMM_BLOCK
        t == LuUpdateTarget(k, loc.ttj)
    IN  IF t = <<>> THEN {}
        ELSE LET i == t[1]
                 j == t[2]
                 ti == t[3]
                 second_input ==
                     IF j = k THEN loc.lu_a_buffer_out_row
                     ELSE IF i = k THEN loc.lu_a_buffer_out_col
                     ELSE loc.left_buffer[LuLeftReadSlot(ti)]
                 top_input == IF loc.ttj >= NB THEN loc.top_buffer[j] ELSE UninitChunk
             IN  {loc.a_buffer[i][j][ii][jj] : ii \in GRange, jj \in GRange}
                 \cup {second_input[jj] : jj \in GRange}
                 \cup (IF LuOperationType(i, j, k) = op_inner
                       THEN {top_input[jj] : jj \in GRange} ELSE {})

\* the values that iteration gk of top_update uses: the block, current_scale
\* and the chunks current_lu_col[row], row < BLOCK_SIZE/GEMM_BLOCK - k
TopReads(loc) ==
    LET k == loc.gk \div GEMM_BLOCK
    IN  BufferValues(loc.a_buffer)
        \cup {TopCurrentScale(a_block_trans, loc.gk)}
        \cup ChunkValues(TopCurrentLuCol(a_block_trans, loc.gk), 0 .. (NB - k - 1))
        \cup ChunkValues(TopCurrentRow(loc.a_buffer, a_block_trans, loc.gk), NBRange)

\* the values that iteration gk of left_update uses: the block, current_col
\* and the chunks current_lu_row[curr_col], curr_col < BLOCK_SIZE/GEMM_BLOCK - k
LeftReads(loc) ==
    LET k == loc.gk \div GEMM_BLOCK
    IN  BufferValues(loc.a_buffer)
        \cup ChunkValues(LeftCurrentCol(loc.a_buffer, loc.gk), NBRange)
        \cup ChunkValues(LeftCurrentLuRow(a_block, loc.gk), 0 .. (NB - k - 1))

\* the values the update loop of an inner_update_mm instance uses
InnerReads(loc) ==
    BufferValues(loc.a_buffer) \cup BufferValues(loc.top_buffer)
    \cup BufferValues(loc.left_buffer)

\* the values of a buffer in global memory
GlobalValues(buf) == {buf[x] : x \in DOMAIN buf}

\* no kernel uses a value that was never written
NoUninitRead ==
    /\ lu.pc = "lu_block" => Uninit \notin BufferValues(lu.a_buffer)
    /\ lu.pc = "update" => Uninit \notin LuUpdateReads(lu)
    /\ top_update.pc = "step" => Uninit \notin TopReads(top_update)
    /\ left_update.pc = "step" => Uninit \notin LeftReads(left_update)
    /\ \A b \in DOMAIN inner_update_mm :
          inner_update_mm[b].pc = "update" => Uninit \notin InnerReads(inner_update_mm[b])

\* no value that was never written reaches an output of a kernel
NoUninitOutput ==
    /\ Uninit \notin GlobalValues(a)
    /\ \A e \in log :
          /\ e[1] = "lu" /\ e[2] = host.k =>
                Uninit \notin (GlobalValues(a_block) \cup GlobalValues(a_block_trans))
          /\ e[1] = "top_update" /\ e[2] = host.k => Uninit \notin GlobalValues(top_block[e[4]])
          /\ e[1] = "left_update" /\ e[2] = host.k => Uninit \notin GlobalValues(left_block[e[3]])

\* C11: no kernel uses in a computation an element of a local buffer that was
\* not written earlier in the same invocation, so every value that reaches an
\* output is a function of the kernel arguments and two runs on equal inputs
\* give identical outputs.
C11_Deterministic == NoUninitRead /\ NoUninitOutput

C11_Witness ==
    /\ lu.pc = "update"
    /\ lu.ttj < NB
    /\ lu.ttj > lu.gk \div GEMM_BLOCK
    /\ lu.gk >= 1
    /\ Uninit \in {lu.left_buffer[0][jj] : jj \in GRange}
    /\ host.k >= 1

-----------------------------------------------------------------------------
(* C12 *)

\* the product of two blocks, added to or subtracted from a third
BlockPlusProduct(C, L, U, sign) ==
    LET P == MatMul(L, U, BLOCK_SIZE)
    IN  [x \in BufferRange |-> RAdd(C[x], RMul(Rat(sign), P[x]))]

\* the block of an instance that has stored is the block at the start of the
\* stage plus (sign = 1) or minus (sign = -1) the product of the blocks that
\* left_update and top_update have stored
TrailingUpdateIs(sign) ==
    \A b \in DOMAIN inner_update_mm :
        inner_update_mm[b].pc = "done" =>
            BlockOf(a, b[1], b[2]) =
                BlockPlusProduct(BlockOf(a_stage, b[1], b[2]),
                                 BlockOf(a, b[1], host.k), BlockOf(a, host.k, b[2]), sign)

\* C12 as stated: the trailing update of block (i,j) at step k replaces the
\* block by A[i][j] - L_col[i] * U_row[j], L_col[i] the output of the column
\* update of block (i,k) and U_row[j] the output of the row update of (k,j).
C12_ClaimedTrailingUpdate == TrailingUpdateIs(-1)

\* C12 amended: the trailing update of block (i,j) at step k replaces the block
\* by A[i][j] + L_col[i] * U_row[j], the full product of the two stored blocks
\* (the row update stores its rows scaled by the negative reciprocal pivots).
C12_TrailingUpdate == TrailingUpdateIs(1)

C12_Witness ==
    /\ host.stage = "inner"
    /\ NB >= 2
    /\ GEMM_BLOCK >= 2
    /\ \E b \in DOMAIN inner_update_mm :
          /\ inner_update_mm[b].pc = "done"
          /\ \A x \in BufferRange : BlockOf(a, b[1], b[2])[x] # BlockOf(a_stage, b[1], b[2])[x]

-----------------------------------------------------------------------------
(* C13 *)

\* the block that top_update stores for the block A and the pivot buffer P
TopResult(A, P) == StoreBuffer(TopLoop(LoadBuffer(A), P, 0))

\* the block that left_update stores for the block A and the pivot buffer P
LeftResult(A, P) == StoreBuffer(LeftLoop(LoadBuffer(A), P, 0))

\* the pivot buffer with every diagonal entry replaced by 1
UnitDiagonal(P) ==
    [x \in BufferRange |-> IF x \div BLOCK_SIZE = x % BLOCK_SIZE THEN Rat(1) ELSE P[x]]

\* the block left_update is working on, as it was loaded
LeftInput == BlockOf(a, left_update.block_row, left_update.block_col)

\* C13 as stated: the block that left_update writes is the transpose of the
\* block that top_update writes for the transposed block and the same pivot
\* buffer, the scaling of the pivot line included.
C13_ClaimedMirror ==
    left_update.pc = "store" =>
        StoreBuffer(left_update.a_buffer)
            = Transposed(TopResult(Transposed(LeftInput), a_block))

\* C13 amended: the block that left_update writes is the transpose of the
\* block that top_update writes for the transposed block and the pivot buffer
\* with its diagonal replaced by 1: the same elimination with rows and columns
\* swapped, but left_update does not scale the pivot line.
C13_MirrorWithoutScaling ==
    left_update.pc = "store" =>
        /\ StoreBuffer(left_update.a_buffer) = LeftResult(LeftInput, a_block)
        /\ LeftResult(LeftInput, a_block)
              = Transposed(TopResult(Transposed(LeftInput), UnitDiagonal(a_block)))

C13_Witness ==
    /\ left_update.pc = "store"
    /\ NB >= 2
    /\ GEMM_BLOCK >= 2
    /\ \A x \in BufferRange : x \div BLOCK_SIZE = x % BLOCK_SIZE => a_block[x] # Rat(1)
    /\ StoreBuffer(left_update.a_buffer) # LeftInput
    /\ Transposed(LeftInput) # LeftInput

-----------------------------------------------------------------------------
(* C14 *)

\* buffer T is the exact transpose of buffer B
IsTransposeOf(T, B) ==
    \A r \in BRange, c \in BRange : T[r * BLOCK_SIZE + c] = B[c * BLOCK_SIZE + r]

\* the block of the matrix holds the local block a_buffer element by element,
\* row r and column c of the one at row r and column c of the other
StoredCanonical(loc) ==
    \A r \in BRange, c \in BRange :
        BlockOf(a, loc.block_row, loc.block_col)[r * BLOCK_SIZE + c] = Element(loc.a_buffer, r, c)

\* C14: after lu, a_block equals the factorized block stored in the matrix and
\* a_block_trans is its exact transpose; after left_update the block stored in
\* the matrix is in canonical orientation and left_block is its exact
\* transpose; after top_update, top_block equals the block stored in the matrix.
C14_ExtraOutputs ==
    /\ lu.pc = "done" =>
          /\ StoredCanonical(lu)
          /\ a_block = BlockOf(a, lu.block_row, lu.block_col)
          /\ IsTransposeOf(a_block_trans, a_block)
    /\ left_update.pc = "done" =>
          /\ StoredCanonical(left_update)
          /\ IsTransposeOf(left_block[left_update.block_row],
                           BlockOf(a, left_update.block_row, left_update.block_col))
    /\ top_update.pc = "done" =>
          /\ StoredCanonical(top_update)
          /\ top_block[top_update.block_col]
                = BlockOf(a, top_update.block_row, top_update.block_col)

C14_Witness ==
    /\ left_update.pc = "done"
    /\ left_update.block_row = 2
    /\ NB >= 1
    /\ BLOCK_SIZE >= 2
    /\ a_block # a_block_trans
    /\ left_block[2] # BlockOf(a, 2, left_update.block_col)
    /\ top_block[2] = BlockOf(a, host.k, 2)
    /\ top_block[2] # left_block[1]

-----------------------------------------------------------------------------
(* C15 *)

\* the iteration gk the kernel executes next starts a micro-block, or the
\* loop over gk has ended
LuMicroBlockDone ==
    /\ LuBlockCalled
    /\ lu.pc \in {"lu_block", "store", "done"}
    /\ AndMask(lu.gk, GEMM_BLOCK) = 0

-----------------------------------------------------------------------------
(* C16 *)

\* lu has just executed an iteration gk whose update loop the guard skipped
LuUpdateSkipped ==
    /\ LuBlockCalled
    /\ lu.pc \in {"lu_block", "store"}
    /\ ~LuUpdateGuard(lu.gk - 1)

\* the blocks of the row and column phases of step k
RowBlocks(k) == {j \in BlockRange : j > k}

\* C16: skipping the update phases of the last step is a pure optimization:
\* for gk >= BLOCK_SIZE - GEMM_BLOCK every iteration of the skipped update
\* loop of lu would work on no micro-block and leave every local of the
\* kernel as it is; and step blocks_per_row-1 of the schedule has no block in
\* its row, column and trailing phases and runs no update kernel.
C16_SkipIsNoOp ==
    /\ LuUpdateSkipped =>
          /\ lu.k = NB - 1
          /\ \A ttj \in 0 .. (LuUpdateBound(lu.k) - 1) :
                /\ LuUpdateTarget(lu.k, ttj) = <<>>
                /\ LuUpdateBody(lu, lu.gk - 1, ttj) = lu
    /\ (host.stage # "single" /\ host.k = blocks_per_row - 1) =>
          /\ RowBlocks(host.k) = {}
          /\ TrailingBlocks(host.k) = {}
          /\ top_update.pc = "idle"
          /\ left_update.pc = "idle"
          /\ DOMAIN inner_update_mm = {}
          /\ \A e \in log : e[2] = host.k => e[1] = "lu"

C16_Witness ==
    /\ LuUpdateSkipped
    /\ lu.pc = "lu_block"
    /\ lu.gk > BLOCK_SIZE - GEMM_BLOCK
    /\ GEMM_BLOCK >= 2
    /\ NB >= 2
    /\ LuUpdateBound(lu.k) = NB
    /\ blocks_per_row >= 2
    /\ host.k = blocks_per_row - 1

-----------------------------------------------------------------------------
(* C17 *)

\* a step of the loop over gk in lu: the loop starts with gk = 0, the
\* iteration executed is gk, gk grows by one when the body of an iteration
\* ends, and the loop is left with gk = BLOCK_SIZE
LuGkStep ==
    /\ (lu.pc = "load" /\ lu' # lu) => (lu'.pc = "lu_block" /\ lu'.gk = 0)
    /\ (lu.pc = "lu_block" /\ lu' # lu) =>
          /\ lu.gk < BLOCK_SIZE
          /\ lu'.k * GEMM_BLOCK + lu'.kk = lu.gk
          /\ \/ lu'.pc = "update" /\ lu'.gk = lu.gk /\ lu'.ttj = 0
             \/ lu'.pc = "lu_block" /\ lu'.gk = lu.gk + 1 /\ lu'.gk < BLOCK_SIZE
             \/ lu'.pc = "store" /\ lu'.gk = lu.gk + 1 /\ lu'.gk = BLOCK_SIZE
    /\ (lu.pc = "update" /\ lu' # lu) =>
          /\ lu'.k = lu.k /\ lu'.kk = lu.kk
          /\ \/ lu'.pc = "update" /\ lu'.gk = lu.gk /\ lu'.ttj = lu.ttj + 1
             \/ lu'.pc = "lu_block" /\ lu'.gk = lu.gk + 1 /\ lu'.gk < BLOCK_SIZE
             \/ lu'.pc = "store" /\ lu'.gk = lu.gk + 1 /\ lu'.gk = BLOCK_SIZE
    /\ (lu.pc = "store" /\ lu' # lu) => lu'.pc = "done"

\* a step of the schedule: k grows by one at a time, after lu has run on the
\* diagonal block of step k, lu is started once in a step, and done is
\* reached from step blocks_per_row-1 and never left
HostKStep ==
    /\ (lu.pc = "idle" /\ lu'.pc # "idle") =>
          /\ host.k < blocks_per_row
          /\ lu'.pc = "load" /\ lu'.block_row = host.k /\ lu'.block_col = host.k
          /\ \A e \in log : e[2] < host.k
    /\ host'.k # host.k =>
          /\ host'.k = host.k + 1
          /\ host.k < blocks_per_row
          /\ <<"lu", host.k, host.k, host.k>> \in log
          /\ host'.stage = (IF host'.k = blocks_per_row THEN "done" ELSE "lu")
    /\ host'.stage # host.stage => host'.k = (IF host.stage = "inner" THEN host.k + 1 ELSE host.k)
    /\ host.stage = "done" => UNCHANGED vars

\* how far a kernel has come: the number of steps an lu run has made
LuProgress ==
    LET W == NB * NB + 2
    IN  CASE lu.pc = "idle" -> 0
          [] lu.pc = "load" -> 1
          [] lu.pc = "lu_block" -> 2 + lu.gk * W
          [] lu.pc = "update" -> 3 + lu.gk * W + lu.ttj
          [] lu.pc = "store" -> 2 + BLOCK_SIZE * W
          [] lu.pc = "done" -> 3 + BLOCK_SIZE * W

UpdateProgress(loc) ==
    CASE loc.pc = "idle" -> 0
      [] loc.pc = "load" -> 1
      [] loc.pc = "step" -> 2 + loc.gk
      [] loc.pc = "store" -> 2 + BLOCK_SIZE
      [] loc.pc = "done" -> 3 + BLOCK_SIZE

InnerProgress ==
    Cardinality({b \in DOMAIN inner_update_mm : inner_update_mm[b].pc # "idle"})
        + Cardinality(InnerDone)

StageRank ==
    CASE host.stage = "lu" -> 0
      [] host.stage = "top" -> 1
      [] host.stage = "left" -> 2
      [] host.stage = "inner" -> 3
      [] host.stage = "done" -> 0
      [] host.stage = "single" -> 0

\* the position of a run: step, stage, block of the stage, progress of the
\* kernels of the stage
Position ==
    <<host.k, StageRank, host.next,
      LuProgress + UpdateProgress(top_update) + UpdateProgress(left_update) + InnerProgress>>

\* lexicographic order of positions
Before(p, q) ==
    \/ p[1] < q[1]
    \/ p[1] = q[1] /\ p[2] < q[2]
    \/ p[1] = q[1] /\ p[2] = q[2] /\ p[3] < q[3]
    \/ p[1] = q[1] /\ p[2] = q[2] /\ p[3] = q[3] /\ p[4] < q[4]

\* the positions a run can be in: finitely many for a configuration
Positions ==
    (0 .. blocks_per_row) \X (0 .. 3) \X (0 .. blocks_per_row)
        \X (0 .. (3 + BLOCK_SIZE * (NB * NB + 2) + 2 * blocks_per_row * blocks_per_row))

\* the enabling condition of NextSched: the guards of its actions
NextSchedEnabled ==
    \/ host.stage = "lu" /\ lu.pc \in {"idle", "done"}
    \/ lu.pc \in {"load", "lu_block", "update", "store"}
    \/ host.stage = "top" /\ host.next < blocks_per_row /\ top_update.pc = "idle"
    \/ top_update.pc \in {"load", "step", "store"}
    \/ host.stage = "top" /\ top_update.pc = "done"
    \/ host.stage = "top" /\ host.next >= blocks_per_row /\ top_update.pc = "idle"
    \/ host.stage = "left" /\ host.next < blocks_per_row /\ left_update.pc = "idle"
    \/ left_update.pc \in {"load", "step", "store"}
    \/ host.stage = "left" /\ left_update.pc = "done"
    \/ host.stage = "left" /\ host.next >= blocks_per_row /\ left_update.pc = "idle"
    \/ /\ host.stage = "inner"
       /\ \E b \in DOMAIN inner_update_mm :
             \/ inner_update_mm[b].pc = "idle" /\ Cardinality(InnerRunning) < num_replications
             \/ inner_update_mm[b].pc = "update"
    \/ host.stage = "inner" /\ \A b \in DOMAIN inner_update_mm : inner_update_mm[b].pc = "done"

\* C17: the schedule visits the steps k = 0, 1, ..., blocks_per_row-1 in
\* increasing order, each exactly once and none skipped, and then reaches the
\* terminal state done; inside the lu kernel the micro-steps gk = 0 ..
\* BLOCK_SIZE-1 are executed in increasing order, each exactly once, and the
\* kernel terminates. Termination: every step moves the run to a later one of
\* finitely many positions, and a step is possible in every state but done.
C17_OrderedAndTerminating ==
    /\ [][LuGkStep /\ HostKStep /\ Before(Position, Position')]_vars
    /\ [](/\ host.k \in 0 .. blocks_per_row
          /\ host.stage = "done" <=> host.k = blocks_per_row
          /\ Position \in Positions
          /\ host.stage # "done" => NextSchedEnabled)

C17_Witness ==
    /\ host.stage = "done"
    /\ blocks_per_row >= 3
    /\ BLOCK_SIZE >= 2
    /\ host.k = blocks_per_row
    /\ Position = <<blocks_per_row, 0, 0, 0>>
    /\ \A k \in BlockRange : StepOps(k) \subseteq log

-----------------------------------------------------------------------------
(* C18 *)

\* the locals of a kernel that steer it: position, loop counters, and for lu
\* the update_block calls of the iteration
LuControl(loc) ==
    IF loc.pc = "idle" THEN <<"idle">>
    ELSE <<loc.pc, loc.block_row, loc.block_col, loc.gk, loc.k, loc.kk, loc.ttj, loc.calls>>

UpdateControl(loc) ==
    IF loc.pc = "idle" THEN <<"idle">>
    ELSE <<loc.pc, loc.block_row, loc.block_col, loc.gk>>

\* a local block buffer and a chunk with every element v
ConstBuffer(v) == [i \in NBRange |-> [j \in NBRange |-> [ii \in GRange |-> [jj \in GRange |-> v]]]]
ConstChunk(v) == [jj \in GRange |-> v]

\* the locals of lu with every matrix value replaced by v
LuWithData(loc, v) ==
    [loc EXCEPT !.a_buffer = ConstBuffer(v),
                !.top_buffer = [j \in NBRange |-> ConstChunk(v)],
                !.left_buffer = [b \in 0 .. 1 |-> ConstChunk(v)],
                !.lu_a_buffer_in = [ii \in GRange |-> ConstChunk(v)],
                !.lu_a_buffer_out = [ii \in GRange |-> ConstChunk(v)],
                !.lu_a_buffer_out_row = ConstChunk(v),
                !.lu_a_buffer_out_col = ConstChunk(v)]

\* a step of a kernel steers the kernel as the same step on other matrix
\* values does: on zeros, where every pivot is zero, and on ones
ValueIndependentStep ==
    \A v \in {Zero, Rat(1)} :
        /\ (lu.pc = "lu_block" /\ lu' # lu) =>
              LuControl(lu') = LuControl(LuFactorStep(LuWithData(lu, v)))
        /\ (lu.pc = "update" /\ lu' # lu) =>
              LuControl(lu') = LuControl(LuUpdateIter(LuWithData(lu, v)))
        /\ (top_update.pc = "step" /\ top_update' # top_update) =>
              UpdateControl(top_update')
                 = UpdateControl(UpdateAfterStep(top_update,
                      TopStep(ConstBuffer(v), [x \in BufferRange |-> v], top_update.gk)))
        /\ (left_update.pc = "step" /\ left_update' # left_update) =>
              UpdateControl(left_update')
                 = UpdateControl(UpdateAfterStep(left_update,
                      LeftStep(ConstBuffer(v), [x \in BufferRange |-> v], left_update.gk)))

\* the kernel runs of a whole factorization
AllOps == UNION {StepOps(k) : k \in BlockRange}

\* the update_block calls of an iteration of the gk loop in micro-block row k
\* that have been made when the loop over ttj has come to ttj
RECURSIVE CallsUpTo(_, _)
CallsUpTo(k, ttj) ==
    IF ttj = 0 THEN <<>>
    ELSE LET t == LuUpdateTarget(k, ttj - 1)
         IN  IF t = <<>> THEN CallsUpTo(k, ttj - 1)
             ELSE Append(CallsUpTo(k, ttj - 1), <<t[1], t[2], LuOperationType(t[1], t[2], k)>>)

\* C18: there is no pivot failure path: for every input, including one with a
\* zero pivot, the kernels perform the same sequence of micro-steps and block
\* updates on the same memory locations and run to completion; no step is
\* skipped, repeated or altered and no error is reported depending on a
\* matrix value.
C18_NoPivotFailurePath ==
    /\ [][ValueIndependentStep]_vars
    /\ [](/\ lu.pc = "update" => lu.calls = CallsUpTo(lu.k, lu.ttj)
          /\ log \subseteq AllOps
          /\ host.stage = "done" => log = AllOps
          /\ host.stage # "done" => NextSchedEnabled)

C18_Witness ==
    /\ host.stage = "done"
    /\ blocks_per_row >= 2
    /\ GEMM_BLOCK >= 2
    /\ ~NonZeroPivots(a_in, MatrixSize)
    /\ a_in[0] # Zero
    /\ \E x \in DOMAIN a : a[x] = Inf
    /\ log = AllOps

-----------------------------------------------------------------------------
(* C19 *)

\* the most recent setupBenchmark came to the parameter check with parameters
\* for which checkInputParameters returns false
InvalidParameters ==
    /\ benchmark.setup # <<>>
    /\ benchmark.setup.reached
    /\ ~benchmark.setup.check

\* number of calls of a method by the last operation
CallsOf(method) ==
    Cardinality({x \in 1 .. Len(benchmark.called) : benchmark.called[x] = method})

\* what the claim says of a process whose parameters are invalid
Detected ==
    /\ benchmark.op = "setupBenchmark" =>
          /\ CallsOf("checkInputParameters") = 1
          /\ benchmark.ret = FALSE
    /\ benchmark.op = "executeBenchmark" =>
          /\ benchmark.ret = FALSE
          /\ CallsOf("generateInputData") = 0
          /\ CallsOf("executeKernel") = 0

\* C19 as claimed: on every process, whatever its MPI rank, whenever
\* checkInputParameters would return false, it is called exactly once by
\* setupBenchmark, setupBenchmark returns false, and a following
\* executeBenchmark returns false without calling generateInputData or
\* executeKernel.
C19_ClaimedDetection == InvalidParameters => Detected

\* C19, the part that holds: invalid parameters are detected at the end of
\* setup on the process of MPI rank 0; on any other rank setupBenchmark does
\* not call checkInputParameters.
C19_DetectionOnRankZero ==
    /\ (InvalidParameters /\ benchmark.mpi_comm_rank = 0) => Detected
    /\ (benchmark.op = "setupBenchmark" /\ benchmark.mpi_comm_rank # 0) =>
          CallsOf("checkInputParameters") = 0

C19_Witness ==
    /\ InvalidParameters
    /\ benchmark.mpi_comm_rank = 0
    /\ benchmark.op = "executeBenchmark"
    /\ ~benchmark.executionSettings.testOnly
    /\ benchmark.ret = FALSE
    /\ benchmark.n >= 3

-----------------------------------------------------------------------------
(* C20 *)

\* the most recent setupBenchmark call returned true
SetupReturnedTrue == benchmark.setup # <<>> /\ benchmark.setup.ret

\* C20: in every sequence of setupBenchmark and executeBenchmark calls on one
\* benchmark object, executeBenchmark calls generateInputData, executeKernel,
\* validateOutput or collectResults only if the most recent setupBenchmark
\* call returned true; when setupBenchmark was never called or its most
\* recent call failed, executeBenchmark returns false and calls none of them.
C20_ExecuteOnlyAfterSetup ==
    benchmark.op = "executeBenchmark" =>
        /\ (\E method \in {"generateInputData", "executeKernel", "validateOutput", "collectResults"} :
               CallsOf(method) > 0) => SetupReturnedTrue
        /\ ~SetupReturnedTrue => (benchmark.ret = FALSE /\ benchmark.called = <<>>)

C20_Witness ==
    /\ benchmark.op = "executeBenchmark"
    /\ benchmark.setup # <<>>
    /\ ~benchmark.setup.reached
    /\ benchmark.executionSettings # <<>>
    /\ ~benchmark.executionSettings.testOnly
    /\ benchmark.ret = FALSE
    /\ benchmark.called = <<>>

-----------------------------------------------------------------------------
(* C21 *)

\* validateOutput was executed during the last call and returned true
ValidatedInCall ==
    /\ CallsOf("validateOutput") = 1
    /\ benchmark.thrown # "validateOutput"
    /\ benchmark.output

\* C21 as claimed: a call of executeBenchmark returns true exactly when
\* validateOutput was executed during that same call and returned true.
C21_ClaimedReturn ==
    benchmark.op = "executeBenchmark" => (benchmark.ret <=> ValidatedInCall)

\* C21, what holds: executeBenchmark returns false when the setup has not
\* succeeded, when a called method throws, and when validateOutput returns
\* false; it returns true in test mode, and otherwise the member validated,
\* which is the result of validateOutput when it was executed in the call and
\* the value an earlier call left when the validation is skipped.
C21_ReturnValue ==
    benchmark.op = "executeBenchmark" =>
        /\ benchmark.ret <=>
              /\ SetupReturnedTrue
              /\ \/ benchmark.executionSettings.testOnly
                 \/ benchmark.thrown = "none" /\ benchmark.validated
        /\ (CallsOf("validateOutput") = 1 /\ benchmark.thrown # "validateOutput") =>
              benchmark.validated = benchmark.output
        /\ (benchmark.thrown # "none" \/ (CallsOf("validateOutput") = 1 /\ ~benchmark.output)) =>
              ~benchmark.ret

\* a call that skips the validation returns true
C21_Witness ==
    /\ benchmark.op = "executeBenchmark"
    /\ benchmark.ret
    /\ ~benchmark.executionSettings.testOnly
    /\ benchmark.executionSettings.skipValidation
    /\ CallsOf("validateOutput") = 0
    /\ CallsOf("executeKernel") = 1
    /\ benchmark.thrown = "none"

-----------------------------------------------------------------------------
(* C22 *)

\* the arguments of the most recent setupBenchmark set testOnly
TestMode == benchmark.setup # <<>> /\ benchmark.setup.testOnly

\* C22: test mode only tests the configuration: when testOnly is set,
\* setupBenchmark selects no device and creates no context or program, and
\* executeBenchmark calls none of generateInputData, executeKernel,
\* validateOutput, collectResults, dumpConfigurationAndResults or
\* printResults, and returns true after a successful setup.
C22_TestModeOnlyTests ==
    /\ (benchmark.op = "setupBenchmark" /\ TestMode) =>
          /\ CallsOf("selectFPGADevice") = 0
          /\ CallsOf("cl::Context") = 0
          /\ CallsOf("fpgaSetup") = 0
    /\ (benchmark.op = "executeBenchmark" /\ TestMode) =>
          /\ \A method \in {"generateInputData", "executeKernel", "validateOutput",
                            "collectResults", "dumpConfigurationAndResults", "printResults"} :
                CallsOf(method) = 0
          /\ SetupReturnedTrue => benchmark.ret

C22_Witness ==
    /\ benchmark.op = "executeBenchmark"
    /\ TestMode
    /\ SetupReturnedTrue
    /\ benchmark.ret
    /\ benchmark.called = <<>>
    /\ ~benchmark.validated
    /\ benchmark.mpi_comm_rank = 1

-----------------------------------------------------------------------------
(* C23 *)

\* the update_block calls a micro-step in micro-block row k has to make
ExpectedCalls(k) ==
    {<<i, j, IF i = k THEN op_top ELSE IF j = k THEN op_left ELSE op_inner>> :
        <<i, j>> \in {b \in NBRange \X NBRange : b[1] >= k /\ b[2] >= k /\ b # <<k, k>>}}

\* C23: in the lu kernel, in every micro-step gk whose diagonal micro-block
\* index k = gk div GEMM_BLOCK is smaller than BLOCK_SIZE/GEMM_BLOCK - 1,
\* update_block is applied exactly once to every micro-block (i,j) with
\* i >= k, j >= k and (i,j) # (k,k), with operation type top when i = k, left
\* when j = k and inner otherwise, and to no other micro-block.
C23_UpdateCoverage ==
    (LuAtStepBoundary /\ (lu.gk - 1) \div GEMM_BLOCK < NB - 1) =>
        /\ {lu.calls[n] : n \in DOMAIN lu.calls} = ExpectedCalls(lu.k)
        /\ Len(lu.calls) = Cardinality(ExpectedCalls(lu.k))
        /\ lu.k = (lu.gk - 1) \div GEMM_BLOCK

C23_Witness ==
    /\ LuAtStepBoundary
    /\ NB >= 4
    /\ lu.k = 1
    /\ Len(lu.calls) = 8
    /\ \E n \in DOMAIN lu.calls : lu.calls[n] = <<3, 2, op_inner>>
    /\ \E n \in DOMAIN lu.calls : lu.calls[n] = <<1, 3, op_top>>
    /\ \E n \in DOMAIN lu.calls : lu.calls[n] = <<2, 1, op_left>>

-----------------------------------------------------------------------------
(* C24 *)

\* the last iteration before ttj of the update loop of micro-block row k that
\* wrote top_buffer[j], or -1 when there is none
TopBufferWriter(k, j, ttj) ==
    LET W == {t \in 0 .. (ttj - 1) : t < NB /\ t = j /\ LuUpdateTarget(k, t) # <<>>}
    IN  IF W = {} THEN -1 ELSE CHOOSE t \in W : \A u \in W : u <= t

\* the last iteration before ttj of the update loop of micro-block row k that
\* wrote left_buffer[slot], or -1 when there is none
LeftBufferWriter(k, slot, ttj) ==
    LET W == {t \in 0 .. (ttj - 1) :
                 /\ LuUpdateTarget(k, t) # <<>>
                 /\ LuUpdateTarget(k, t)[1] > k
                 /\ LuUpdateTarget(k, t)[2] = k
                 /\ LuLeftWriteSlot(LuUpdateTarget(k, t)[3]) = slot}
    IN  IF W = {} THEN -1 ELSE CHOOSE t \in W : \A u \in W : u <= t

\* iteration ttj of the update loop of micro-block row k is an inner update
LuIsInner(k, ttj) ==
    /\ LuUpdateTarget(k, ttj) # <<>>
    /\ LuOperationType(LuUpdateTarget(k, ttj)[1], LuUpdateTarget(k, ttj)[2], k) = op_inner

\* the inner update the kernel is about to make reads the chunks of this
\* micro-step's top update of (k,j) and left update of (i,k)
PivotBuffersFresh ==
    (lu.pc = "update" /\ LuIsInner(lu.k, lu.ttj)) =>
        LET k == lu.k
            i == LuUpdateTarget(k, lu.ttj)[1]
            j == LuUpdateTarget(k, lu.ttj)[2]
            ti == LuUpdateTarget(k, lu.ttj)[3]
            tw == TopBufferWriter(k, j, lu.ttj)
            lw == LeftBufferWriter(k, LuLeftReadSlot(ti), lu.ttj)
        IN  /\ tw >= 0
            /\ LuUpdateTarget(k, tw)[1] = k /\ LuUpdateTarget(k, tw)[2] = j
            /\ lu.top_buffer[j] = [jj \in GRange |-> lu.a_buffer[k][j][lu.kk][jj]]
            /\ lw >= 0
            /\ LuUpdateTarget(k, lw)[1] = i /\ LuUpdateTarget(k, lw)[2] = k
            /\ lu.left_buffer[LuLeftReadSlot(ti)] =
                   [ii \in GRange |-> lu.a_buffer[i][k][ii][lu.kk]]

\* the inner updates of the row the loop is in that are still to come
PendingInner(k, ttj) ==
    {t \in (ttj + 1) .. (LuUpdateBound(k) - 1) :
        /\ LuIsInner(k, t)
        /\ LuUpdateTarget(k, t)[3] = LuUpdateTarget(k, ttj)[3]}

\* an iteration that makes a left update leaves the left_buffer slot alone
\* that the inner updates of its row still have to read
LeftSlotKept ==
    (/\ lu.pc = "update"
     /\ LuUpdateTarget(lu.k, lu.ttj) # <<>>
     /\ LuOperationType(LuUpdateTarget(lu.k, lu.ttj)[1], LuUpdateTarget(lu.k, lu.ttj)[2], lu.k) = op_left
     /\ PendingInner(lu.k, lu.ttj) # {}) =>
        \A t \in PendingInner(lu.k, lu.ttj) :
            lu'.left_buffer[LuLeftReadSlot(LuUpdateTarget(lu.k, t)[3])] =
                lu.left_buffer[LuLeftReadSlot(LuUpdateTarget(lu.k, t)[3])]

\* C24: the pivot buffers are never stale in the lu kernel: an inner update
\* of micro-block (i,j) in micro-step gk reads the top_buffer[j] chunk
\* produced by the top update of (k,j) in the same gk and the left_buffer
\* chunk produced by the left update of (i,k) in the same gk, and the left
\* update of the next row never overwrites a left_buffer slot that the
\* current row's inner updates still have to read.
C24_PivotBuffersNeverStale == []PivotBuffersFresh /\ [][LeftSlotKept]_vars

C24_Witness ==
    /\ lu.pc = "update"
    /\ lu.k = 1
    /\ LuIsInner(lu.k, lu.ttj)
    /\ LuUpdateTarget(lu.k, lu.ttj) = <<3, 2, 3>>
    /\ lu.left_buffer[0] # lu.left_buffer[1]
    /\ lu.left_buffer[LuLeftReadSlot(3)] \notin {UninitChunk}
    /\ lu.top_buffer[2] # lu.top_buffer[3]

-----------------------------------------------------------------------------
(* C25 *)

\* top_update makes iteration gk of its loop in this step
TopIteration == top_update.pc = "step" /\ top_update'.pc \in {"step", "store"}

\* entry [gk][r] of lu_global_buffer_transposed
LuTransposedAt(gk, r) == a_block_trans[gk * BLOCK_SIZE + r]

\* row gk of the block after the scaling with the diagonal entry
TopScaledRow(c) ==
    RMul(Element(top_update.a_buffer, top_update.gk, c),
         LuTransposedAt(top_update.gk, top_update.gk))

\* C25: top_update at micro-step gk (k = gk div GEMM_BLOCK) leaves every
\* row of the block with index < gk unchanged, multiplies row gk in all
\* columns by the diagonal entry lu_global_buffer_transposed[gk][gk], and
\* adds to every row r > gk the scaled row gk multiplied by
\* lu_global_buffer_transposed[gk][r]; only rows of micro-block rows >= k
\* take part.
C25_ClaimedTopStep ==
    [][TopIteration =>
        \A r \in 0 .. (BLOCK_SIZE - 1), c \in 0 .. (BLOCK_SIZE - 1) :
            Element(top_update'.a_buffer, r, c) =
                IF r < top_update.gk THEN Element(top_update.a_buffer, r, c)
                ELSE IF r = top_update.gk THEN TopScaledRow(c)
                ELSE RAdd(Element(top_update.a_buffer, r, c),
                          RMul(TopScaledRow(c), LuTransposedAt(top_update.gk, r)))]_vars

\* the factor of the scaled row gk that iteration gk adds to row r: the
\* entries up to kk of the chunk of micro-block row k are masked
TopRowFactor(gk, r) == IF r > gk THEN LuTransposedAt(gk, r) ELSE Zero

\* C25 amended: rows of micro-block rows < k are not accessed; row gk is
\* multiplied by the diagonal entry; every row r of a micro-block row >= k
\* gets the scaled row times its factor added, where the factor of a row
\* r <= gk is the constant 0, so that these rows keep their values exactly
\* when the scaled row is finite.
C25_TopStep ==
    [][TopIteration =>
        \A r \in 0 .. (BLOCK_SIZE - 1), c \in 0 .. (BLOCK_SIZE - 1) :
            /\ Element(top_update'.a_buffer, r, c) =
                 IF r \div GEMM_BLOCK < top_update.gk \div GEMM_BLOCK
                 THEN Element(top_update.a_buffer, r, c)
                 ELSE RAdd(IF r = top_update.gk THEN TopScaledRow(c)
                                                ELSE Element(top_update.a_buffer, r, c),
                           RMul(TopRowFactor(top_update.gk, r), TopScaledRow(c)))
            /\ IsNum(TopScaledRow(c)) =>
                 Element(top_update'.a_buffer, r, c) =
                    IF r < top_update.gk THEN Element(top_update.a_buffer, r, c)
                    ELSE IF r = top_update.gk THEN TopScaledRow(c)
                    ELSE RAdd(Element(top_update.a_buffer, r, c),
                              RMul(TopScaledRow(c), LuTransposedAt(top_update.gk, r)))]_vars

\* top_update has made the last iteration, with k >= 1 and kk >= 1, of a block
\* of numbers
C25_Witness ==
    /\ top_update.pc = "store"
    /\ top_update.gk = BLOCK_SIZE
    /\ NB >= 2
    /\ GEMM_BLOCK >= 2
    /\ \A r \in 0 .. (BLOCK_SIZE - 1), c \in 0 .. (BLOCK_SIZE - 1) :
          IsNum(Element(top_update.a_buffer, r, c))
    /\ \E c \in 0 .. (BLOCK_SIZE - 1) :
          Element(top_update.a_buffer, BLOCK_SIZE - 1, c) # Zero
    /\ a_block_trans[BLOCK_SIZE * BLOCK_SIZE - 1] \notin {Rat(1), Zero}

-----------------------------------------------------------------------------
(* C26 *)

\* the iterations before ttj of the update loop of lu in micro-block row k
\* that wrote micro-block (i,j) of a_buffer
ABufferWriters(k, i, j, ttj) ==
    {w \in 0 .. (ttj - 1) :
        /\ LuUpdateTarget(k, w) # <<>>
        /\ LuUpdateTarget(k, w)[1] = i
        /\ LuUpdateTarget(k, w)[2] = j}

\* every read of the iteration the lu kernel is about to make that sees a
\* write of an earlier iteration of the loop is at least NB iterations after it
LuDistances ==
    (lu.pc = "update" /\ LuUpdateTarget(lu.k, lu.ttj) # <<>>) =>
        LET k == lu.k
            i == LuUpdateTarget(k, lu.ttj)[1]
            j == LuUpdateTarget(k, lu.ttj)[2]
            ti == LuUpdateTarget(k, lu.ttj)[3]
            tw == TopBufferWriter(k, j, lu.ttj)
            lw == LeftBufferWriter(k, LuLeftReadSlot(ti), lu.ttj)
        IN  /\ \A w \in ABufferWriters(k, i, j, lu.ttj) : lu.ttj - w >= NB
            /\ (lu.ttj >= NB /\ tw >= 0) => lu.ttj - tw >= NB
            /\ (LuIsInner(k, lu.ttj) /\ lw >= 0) => lu.ttj - lw >= NB

\* two iterations of the update loop of inner_update_mm access the same
\* micro-block exactly when they are a multiple of NB * NB iterations apart
InnerDistances ==
    (\E b \in DOMAIN inner_update_mm : inner_update_mm[b].pc = "update") =>
        \A c1 \in 0 .. (NB * NB * NB - 1), c2 \in 0 .. (NB * NB * NB - 1) :
            c1 < c2 => (InnerTarget(c1) = InnerTarget(c2) <=> (c2 - c1) % (NB * NB) = 0)

\* no two iterations of the coalesced update loop of left_update access the
\* same micro-block
LeftDistances ==
    left_update.pc = "step" =>
        LET k == left_update.gk \div GEMM_BLOCK
        IN  \A it1 \in 0 .. (LeftUpdateBound(k) - 1), it2 \in 0 .. (LeftUpdateBound(k) - 1) :
                it1 < it2 => LeftUpdateTarget(k, it1) # LeftUpdateTarget(k, it2)

\* an iteration gk of left_update changes no micro-block that is not the
\* target of an iteration of its update loop
LeftTargetsOnly ==
    (left_update.pc = "step" /\ left_update'.pc \in {"step", "store"}) =>
        \A row \in NBRange, c \in NBRange :
            left_update'.a_buffer[row][c] # left_update.a_buffer[row][c] =>
                \E it \in 0 .. (LeftUpdateBound(left_update.gk \div GEMM_BLOCK) - 1) :
                    LeftUpdateTarget(left_update.gk \div GEMM_BLOCK, it) = <<row, c>>

\* C26: the dependency distances promised by the ivdep pragmas hold: in the
\* update loop over ttj of the lu kernel, every read of a top_buffer,
\* left_buffer or a_buffer element that sees a value written by an earlier
\* iteration of that loop happens at least BLOCK_SIZE/GEMM_BLOCK iterations
\* after the write; in inner_update_mm two loop iterations that access the
\* same a_buffer micro-block are exactly a multiple of
\* (BLOCK_SIZE/GEMM_BLOCK)^2 iterations apart; in left_update no two
\* iterations of the coalesced row/column update loop access the same
\* a_buffer micro-block.
C26_DependencyDistances ==
    [](LuDistances /\ InnerDistances /\ LeftDistances) /\ [][LeftTargetsOnly]_vars

\* the lu kernel of the second block step, after left_update and
\* inner_update_mm have run, reads both pivot buffers for an inner update
C26_Witness ==
    /\ lu.pc = "update"
    /\ host.k >= 1
    /\ NB >= 2
    /\ LuIsInner(lu.k, lu.ttj)
    /\ TopBufferWriter(lu.k, LuUpdateTarget(lu.k, lu.ttj)[2], lu.ttj) >= 0
    /\ LeftBufferWriter(lu.k, LuLeftReadSlot(LuUpdateTarget(lu.k, lu.ttj)[3]), lu.ttj) >= 0
    /\ \E e \in log : e[1] = "left_update"
    /\ \E e \in log : e[1] = "inner_update_mm"

-----------------------------------------------------------------------------
(* C27 *)

\* the kernel instances that have their arguments
KernelInstances ==
    {loc \in {lu, top_update, left_update} \cup {inner_update_mm[b] : b \in DOMAIN inner_update_mm} :
        "block_col" \in DOMAIN loc}

\* the indices at which the load and store loops of a kernel with these
\* arguments access the matrix
MatrixIndices(block_col, block_row) ==
    {GlobalIndex(block_col, block_row, q[1], q[2], q[3], q[4]) : q \in Quads}

\* the indices at which the kernels access a block-sized buffer: the load
\* and store loops, and the chunks of the pivot buffer read in iteration gk
\* of top_update and left_update
BufferIndices ==
    {BlockIndex(q[1], q[2], q[3], q[4]) : q \in Quads}
    \cup {gk * BLOCK_SIZE + (col + (gk \div GEMM_BLOCK)) * GEMM_BLOCK + i :
            <<gk, col, i>> \in {t \in (0 .. (BLOCK_SIZE - 1)) \X NBRange \X GRange :
                                    t[2] < NB - (t[1] \div GEMM_BLOCK)}}

\* the accesses of every kernel instance stay in its block and in the buffers
AccessesInBlock ==
    /\ \A loc \in KernelInstances :
          (loc.block_row < blocks_per_row /\ loc.block_col < blocks_per_row) =>
              /\ MatrixIndices(loc.block_col, loc.block_row)
                     = BlockElements(loc.block_row, loc.block_col)
              /\ \A x \in MatrixIndices(loc.block_col, loc.block_row) :
                     x < (BLOCK_SIZE * blocks_per_row) * (BLOCK_SIZE * blocks_per_row)
              /\ MatrixIndices(loc.block_col, loc.block_row) \subseteq DOMAIN a
    /\ \A x \in BufferIndices : x < BLOCK_SIZE * BLOCK_SIZE
    /\ BufferIndices \subseteq DOMAIN a_block_trans
    /\ BufferIndices \subseteq DOMAIN a_block
    /\ \A b \in DOMAIN top_block : BufferIndices \subseteq DOMAIN top_block[b]
    /\ \A b \in DOMAIN left_block : BufferIndices \subseteq DOMAIN left_block[b]

\* the chunks top_update reads from the pivot buffer are at these indices
PivotChunksRead ==
    top_update.pc = "step" =>
        \A col \in NBRange, i \in GRange :
            (/\ col < NB - (top_update.gk \div GEMM_BLOCK)
             /\ (col > 0 \/ i > AndMask(top_update.gk, GEMM_BLOCK))) =>
                TopCurrentLuCol(a_block_trans, top_update.gk)[col][i] =
                    a_block_trans[top_update.gk * BLOCK_SIZE
                                  + (col + (top_update.gk \div GEMM_BLOCK)) * GEMM_BLOCK + i]

\* a step of a kernel changes the matrix only in its store, and there only
\* inside its block
KernelStepFrame(loc, loc2, store) ==
    (loc2 # loc /\ "block_col" \in DOMAIN loc) =>
        IF loc.pc = store
        THEN \A x \in DOMAIN a :
                x \notin BlockElements(loc.block_row, loc.block_col) => a'[x] = a[x]
        ELSE a' = a

OutsideUnchanged ==
    /\ KernelStepFrame(lu, lu', "store")
    /\ KernelStepFrame(top_update, top_update', "store")
    /\ KernelStepFrame(left_update, left_update', "store")
    /\ \A b \in DOMAIN inner_update_mm :
          b \in DOMAIN inner_update_mm' =>
              KernelStepFrame(inner_update_mm[b], inner_update_mm'[b], "update")

\* C27: for block_row < blocks_per_row and block_col < blocks_per_row, each
\* of lu, top_update, left_update and inner_update_mm accesses the matrix a
\* only at indices below (BLOCK_SIZE*blocks_per_row)^2 that belong to block
\* (block_row, block_col), accesses the block-sized buffers only at indices
\* below BLOCK_SIZE^2, and leaves every matrix element outside block
\* (block_row, block_col) unchanged.
C27_AccessesInBlock == [](AccessesInBlock /\ PivotChunksRead) /\ [][OutsideUnchanged]_vars

\* top_update has stored the block right of the diagonal block of a 2 x 2
\* block matrix and has changed it; the block below the diagonal block is
\* as it was
C27_Witness ==
    /\ blocks_per_row = 2
    /\ BLOCK_SIZE >= 2
    /\ <<"top_update", 0, 0, 1>> \in log
    /\ BlockOf(a, 0, 1) # BlockOf(a_in, 0, 1)
    /\ BlockOf(a, 1, 0) = BlockOf(a_in, 1, 0)

-----------------------------------------------------------------------------
(* C28 *)

\* the last call was an executeBenchmark after a successful setup without
\* test mode
NormalExecute ==
    /\ benchmark.op = "executeBenchmark"
    /\ benchmark.benchmark_setup_succeeded
    /\ ~benchmark.executionSettings.testOnly

\* the phases of executeBenchmark in the order of the claim, printError
\* after validateOutput
PhaseOrder ==
    <<"generateInputData", "executeKernel", "validateOutput", "printError",
      "collectResults", "dumpConfigurationAndResults", "printResults">>

PhaseRank(method) == CHOOSE x \in 1 .. Len(PhaseOrder) : PhaseOrder[x] = method

\* C28: in a normal (non-test) executeBenchmark call the phases run at most
\* once each and in the order generateInputData, executeKernel,
\* validateOutput, collectResults, dumpConfigurationAndResults,
\* printResults; when skipValidation is set, validateOutput and printError
\* are not called at all; dumpConfigurationAndResults runs only on rank 0
\* and only when dumpfilePath is non-empty.
C28_PhaseOrder ==
    NormalExecute =>
        /\ \A x \in DOMAIN benchmark.called :
              \E y \in DOMAIN PhaseOrder : PhaseOrder[y] = benchmark.called[x]
        /\ \A x \in DOMAIN benchmark.called, y \in DOMAIN benchmark.called :
              x < y => PhaseRank(benchmark.called[x]) < PhaseRank(benchmark.called[y])
        /\ benchmark.executionSettings.skipValidation =>
              /\ CallsOf("validateOutput") = 0
              /\ CallsOf("printError") = 0
        /\ CallsOf("dumpConfigurationAndResults") > 0 =>
              /\ benchmark.mpi_comm_rank = 0
              /\ benchmark.executionSettings.dumpfile
        /\ benchmark.thrown = "none" =>
              /\ CallsOf("generateInputData") = 1
              /\ CallsOf("executeKernel") = 1
              /\ CallsOf("collectResults") = 1

\* a call on rank 0 with validation and a dump file that ran all phases
C28_Witness ==
    /\ NormalExecute
    /\ benchmark.mpi_comm_rank = 0
    /\ benchmark.thrown = "none"
    /\ benchmark.called = PhaseOrder

-----------------------------------------------------------------------------
(* C29 *)

\* C29: if generateInputData, executeKernel, validateOutput or
\* collectResults throws an exception during executeBenchmark,
\* executeBenchmark returns false, none of the later phases (including
\* dumpConfigurationAndResults and printResults) is executed in that call,
\* and the exception does not propagate to the caller.
C29_ExceptionHandled ==
    benchmark.thrown \in {"generateInputData", "executeKernel", "validateOutput",
                          "collectResults"} =>
        /\ benchmark.op = "executeBenchmark"
        /\ ~benchmark.exited
        /\ benchmark.ret = FALSE
        /\ benchmark.called # <<>>
        /\ benchmark.called[Len(benchmark.called)] = benchmark.thrown
        /\ CallsOf(benchmark.thrown) = 1
        /\ \A x \in DOMAIN benchmark.called :
              PhaseRank(benchmark.called[x]) <= PhaseRank(benchmark.thrown)
        /\ CallsOf("dumpConfigurationAndResults") = 0
        /\ CallsOf("printResults") = 0

\* collectResults throws on rank 0, with a dump file, after a validation
\* that succeeded
C29_Witness ==
    /\ benchmark.op = "executeBenchmark"
    /\ benchmark.thrown = "collectResults"
    /\ benchmark.mpi_comm_rank = 0
    /\ benchmark.executionSettings.dumpfile
    /\ benchmark.validated
    /\ CallsOf("validateOutput") = 1
    /\ benchmark.ret = FALSE

-----------------------------------------------------------------------------
(* Calls of jsonifySettingsMap on settings maps as getSettingsMap and the   *)
(* derived classes make them                                                *)

\* largest number of entries of a settings map
MaxSettings == 2

\* the keys, in the order of std::map
KeyOrder ==
    <<"Communication Type", "Dist. Buffers", "FPGA Torus", "Kernel File", "MPI Ranks",
      "Repetitions", "Test Mode">>

JsonKeys == {KeyOrder[x] : x \in DOMAIN KeyOrder}

\* the values: "Yes", "No", a number, a name that begins with a digit, a
\* name, "None", a torus, the empty string, a number too large for int
JsonStrings ==
    {<<"Y", "e", "s">>, <<"N", "o">>, <<"1", "0">>, <<"2", "x">>, <<"k">>,
     <<"N", "o", "n", "e">>, <<"P", "=", "2", ",", " ", "Q", "=", "3">>, <<>>,
     <<"9", "9", "9", "9", "9", "9", "9", "9", "9", "9", "9">>}

SettingsMaps ==
    UNION {[S -> JsonStrings] : S \in {T \in SUBSET JsonKeys : Cardinality(T) <= MaxSettings}}

InitJson ==
    /\ LOCAL_MEM_BLOCK_LOG = 0
    /\ REGISTER_BLOCK_LOG = 0
    /\ blocks_per_row = 1
    /\ a_in = <<>>
    /\ a = <<>>
    /\ a_block_trans = <<>>
    /\ a_block = <<>>
    /\ lu = KernelIdle
    /\ num_replications = 1
    /\ host = [k |-> 0, stage |-> "setup", next |-> 0]
    /\ top_block = <<>>
    /\ left_block = <<>>
    /\ top_update = KernelIdle
    /\ left_update = KernelIdle
    /\ inner_update_mm = <<>>
    /\ log = {}
    /\ a_stage = <<>>
    /\ benchmark = HpccFpgaBenchmark(0)
    /\ \E settings_map \in SettingsMaps :
          jsonify = [pc |-> "call", settings_map |-> settings_map]

\* the call: j is empty and the loop starts with the first key
JsonifyCall ==
    /\ jsonify.pc = "call"
    /\ jsonify' = [pc |-> IF DOMAIN jsonify.settings_map = {} THEN "returned" ELSE "loop",
                   settings_map |-> jsonify.settings_map,
                   j |-> <<>>,
                   rest |-> SelectSeq(KeyOrder, LAMBDA k : k \in DOMAIN jsonify.settings_map),
                   exception |-> "none"]
    /\ UNCHANGED <<cfgvars, kernelvars, benchmark>>

JsonifyItem ==
    /\ jsonify.pc = "loop"
    /\ jsonify' = jsonifySettingsMapItem(jsonify)
    /\ UNCHANGED <<cfgvars, kernelvars, benchmark>>

NextJson ==
    \/ JsonifyCall
    \/ JsonifyItem

SpecJson == InitJson /\ [][NextJson]_vars

-----------------------------------------------------------------------------
(* C30 *)

\* the keys the claim lists as yes/no keys
YesNoKeys ==
    {"Emulate", "Test Mode", "Memory Interleaving", "Replicate Inputs", "Inverse",
     "Diagonally Dominant", "Dist. Buffers"}

\* the entries of j that the loop has written
JsonWritten == IF jsonify.pc \in {"loop", "returned", "thrown"} THEN DOMAIN jsonify.j ELSE {}

\* C30: jsonifySettingsMap keeps string settings as strings: for every key
\* that is not 'FPGA Torus' and not one of the yes/no keys (Emulate, Test
\* Mode, Memory Interleaving, Replicate Inputs, Inverse, Diagonally
\* Dominant, Dist. Buffers) and whose value does not parse as an integer
\* (for example 'Kernel File' or 'Communication Type'), the JSON entry is
\* the unchanged string value; only the listed yes/no keys are converted to
\* the boolean value == "Yes".
C30_ClaimedStrings ==
    \A key \in JsonWritten :
        /\ (/\ key # "FPGA Torus"
            /\ key \notin YesNoKeys
            /\ stoi(jsonify.settings_map[key])[1] # "int") =>
               jsonify.j[key] = <<"string", jsonify.settings_map[key]>>
        /\ jsonify.j[key][1] = "bool" =>
               /\ key \in YesNoKeys
               /\ jsonify.j[key][2] = (jsonify.settings_map[key] = <<"Y", "e", "s">>)

\* what the code does: every value, of whatever key but 'FPGA Torus', that
\* does not begin with an integer becomes the boolean value == "Yes", and no
\* entry is a string
C30_EveryStringToBoolean ==
    \A key \in JsonWritten :
        /\ jsonify.j[key][1] # "string"
        /\ (key # "FPGA Torus" /\ stoi(jsonify.settings_map[key])[1] # "int") =>
               jsonify.j[key] = <<"bool", jsonify.settings_map[key] = <<"Y", "e", "s">>>>
        /\ stoi(jsonify.settings_map[key])[1] = "int" =>
               jsonify.j[key] = stoi(jsonify.settings_map[key])

\* the call has returned with the kernel file name k turned into false
C30_Witness ==
    /\ jsonify.pc = "returned"
    /\ "Kernel File" \in DOMAIN jsonify.j
    /\ jsonify.settings_map["Kernel File"] = <<"k">>
    /\ jsonify.j["Kernel File"] = <<"bool", FALSE>>

====
